---- MODULE Spec2Model ----
(***************************************************************************)
(* Model of ktye/map: the tile source chain (package tile) and the         *)
(* OruxMaps export pipeline (package orux).                                *)
(*                                                                         *)
(* Geographic points are modelled in projected world coordinates: a point  *)
(* is [wx, wy], the Mercator fractions of LatLon.XY scaled by WorldSize,   *)
(* wx growing eastwards from 180 W and wy growing southwards from          *)
(* MaxLatitude.  The transcendental projection itself is a monotone        *)
(* bijection between latitude and wy and is not modelled.                  *)
(***************************************************************************)
EXTENDS Integers, Sequences, FiniteSets, TLC

VARIABLES
    cfg,        \* CombinedServer fields: cache ("nil" | "unset" | "on"), local, http, points
    maxTiles,   \* CacheServer.maxTiles
    m,          \* CacheServer.m: normalized key -> tile
    disk,       \* files of the LocalServer directory: key -> file
    black,      \* the package variable black (a tile that is mutable in place)
    ret,        \* what the last call returned
    calls,      \* the layer calls the last CombinedServer.Get made, in order
    addOrder,   \* history: the keys passed to CacheServer.Add, in order of first call
    hist,       \* history: key -> the first Combined Get of it that Local-Disk resolved
    TopLeft, BottomRight, ZoomLevels,   \* orux.Map
    encPc,      \* position of Map.Encode
    result,     \* the error Map.Encode returned ("pending" while it runs)
    countRes,   \* what Map.Count returned to Encode
    dirCreated, \* os.Mkdir(name) succeeded
    cmdStarted, \* the sqlite3 subprocess was started
    prodPc,     \* position of the goroutine running Map.sqlitePipe
    pos,        \* loop variables of sqlitePipe: zi (index in ZoomLevels), x, y
    gets,       \* number of ts.Get calls sqlitePipe made
    rows,       \* number of INSERT statements written
    lastGet,    \* the coordinate of the tile the last ts.Get or Next call was about
    lastRow,    \* the key of the last INSERT statement written by that call, or NoRow
    ts,         \* the tile.Server handed to Encode: "server", or "sparse" (a SparseServer)
    sparse,     \* the SparsePointServer, when ts = "sparse"
    points,     \* the points NewSparsePointServer was called with
    missing,    \* which tiles the plain tile source handed to Encode does not have
    lastZi,     \* the index in ZoomLevels of the level the last ts.Get call was made for
    lastTile,   \* the tile the last ts.Get or Next call returned (NoTile for nil)
    stream,     \* history: the statements sqlitePipe wrote to wc, in order
    pipe,       \* number of writes in the stdin pipe that sqlite3 has not read yet
    pipeCap,    \* number of writes the pipe holds before a write blocks
    consPc,     \* the sqlite3 subprocess: "idle", "running", "ok" or "failed" (exit status)
    xml,        \* what WriteXML left behind: the file and the layers it wrote
    args,       \* the arguments of the projection function under test
    res,        \* what the last call of a projection function returned
    uim,        \* UniformServer.im: the memoized raster, NoTile while nil
    lock,       \* CacheServer.Mutex: the caller that holds it, 0 when free
    procs,      \* the concurrent callers of the tile sources: position and locals
    stored,     \* the (coordinate, tile) pairs that CacheServer.Add put into the map
    viewer      \* cmd/map: Zoom, Origin and the locals of its event loop

tileVars == <<cfg, maxTiles, m, disk, black, ret, calls, addOrder, hist>>
oruxVars == <<TopLeft, BottomRight, ZoomLevels, encPc, result, countRes, dirCreated,
              cmdStarted, prodPc, pos, gets, rows, lastGet, lastRow, ts, sparse,
              points, missing, lastZi, lastTile, stream, pipe, pipeCap, consPc, xml>>
otherVars == <<args, res, uim, lock, procs, stored, viewer>>
vars == <<tileVars, oruxVars, otherVars>>

----------------------------------------------------------------------------
(* Bounds of the model *)

MaxCap == 1          \* largest positive cache capacity tried
MaxZoomLevels == 2   \* longest ZoomLevels list tried

(* The resolution of the projected world coordinates: 256 pixels times 2^3 *)
(* tiles, so that every pixel of zoom 3 is a distinct value.               *)
WorldSize == 256 * 8

ZoomInputs == {1, 25}           \* zoom arguments of Combined Get; 25 is out of range
XInputs == {-1, 0}              \* x arguments: -1 wraps around
YInputs == {0, 2}               \* y arguments: 2 wraps around
Capacities == {-1, 0} \cup (1 .. MaxCap)
CacheZoomInputs == {0, 1, 25}   \* arguments of the calls made on the cache alone
CacheXInputs == {-1, 0, 1}
CacheYInputs == {0, 2}
CacheCapacities == {-1, 0} \cup (1 .. MaxCap + 1)
TileIds == {"t1", "t2"}         \* tiles handed to CacheServer.Add directly

Pow2(n) == 2 ^ n

----------------------------------------------------------------------------
(* Projection engine *)

\* Go's integer division and remainder truncate towards zero.
GoDiv(a, b) == IF a >= 0 THEN a \div b ELSE -((-a) \div b)
GoRem(a, b) == a - b * GoDiv(a, b)

ZoomOk(z) == ~(z < 0 \/ z > 24)

NumTilesUpTo25(z) == IF z < 0 \/ z > 25 THEN 0 ELSE Pow2(z)

NumTiles(z) == IF z < 0 \/ z > 24 THEN 0 ELSE Pow2(z)

normalizeTileNoWrap(z, x, y) == <<GoRem(x, NumTiles(z)), GoRem(y, NumTiles(z))>>

\* normalizeTile, for a zoom that passed checkZoom.
normalizeTile(z, x, y) ==
    LET n == NumTiles(z)
        x1 == GoRem(x, n)
        y1 == GoRem(y, n)
    IN <<IF x1 < 0 THEN x1 + n ELSE x1, IF y1 < 0 THEN y1 + n ELSE y1>>

NoXY == [X |-> 0, Y |-> 0, Z |-> 0, XP |-> 0, YP |-> 0]

\* d.Lat < MinLatitude(z) || d.Lat > MaxLatitude, in projected coordinates:
\* MinLatitude(z) is the latitude of pixel (255,255) of the last tile.
LatOutOfRange(d, z) ==
    \/ d.wy * 256 * Pow2(z) > (256 * Pow2(z) - 1) * WorldSize
    \/ d.wy < 0

\* checkZoom: TRUE when it panics
checkZoom(z) == z < 0 \/ z > 24

\* LatLon.XY with the latitude bound evaluated before the zoom is looked at
LatLonXYLatFirst(d, z) ==
    IF checkZoom(z) THEN [xy |-> NoXY, err |-> "nil", panic |-> TRUE]
    ELSE IF LatOutOfRange(d, z) THEN [xy |-> NoXY, err |-> "latitude", panic |-> FALSE]
    ELSE [xy |-> [X |-> GoDiv(d.wx * Pow2(z), WorldSize),
                  Y |-> GoDiv(d.wy * Pow2(z), WorldSize),
                  Z |-> z,
                  XP |-> GoDiv(256 * GoRem(d.wx * Pow2(z), WorldSize), WorldSize),
                  YP |-> GoDiv(256 * GoRem(d.wy * Pow2(z), WorldSize), WorldSize)],
          err |-> "nil", panic |-> FALSE]

\* LatLon.XY: [xy, err, panic]; MinLatitude(z) calls checkZoom, the guard before
\* it keeps an out-of-range zoom away from it
LatLonXY(d, z) ==
    IF z < 0 \/ z > 24 THEN [xy |-> NoXY, err |-> "ZoomRangeError", panic |-> FALSE]
    ELSE IF checkZoom(z) THEN [xy |-> NoXY, err |-> "nil", panic |-> TRUE]
    ELSE IF LatOutOfRange(d, z) THEN [xy |-> NoXY, err |-> "latitude", panic |-> FALSE]
    ELSE [xy |-> [X |-> GoDiv(d.wx * Pow2(z), WorldSize),
                  Y |-> GoDiv(d.wy * Pow2(z), WorldSize),
                  Z |-> z,
                  XP |-> GoDiv(256 * GoRem(d.wx * Pow2(z), WorldSize), WorldSize),
                  YP |-> GoDiv(256 * GoRem(d.wy * Pow2(z), WorldSize), WorldSize)],
          err |-> "nil", panic |-> FALSE]

----------------------------------------------------------------------------
(* Tiles and tile sources *)

NoTile == [base |-> "nil", marks |-> {}]
\* What a file or a response body holds: an encoded raster of dx x dy pixels
NoFile == [base |-> "nofile", marks |-> {}, dx |-> 0, dy |-> 0]
BadFile == [base |-> "bad", marks |-> {}, dx |-> 0, dy |-> 0]    \* bytes that are no png
\* png.Encode of a tile, and a png of another size
pngEncode(t) == [base |-> t.base, marks |-> t.marks, dx |-> 256, dy |-> 256]
SmallPng == [base |-> "disk", marks |-> {}, dx |-> 255, dy |-> 256]
SolidBlack == [base |-> "black", marks |-> {}]
NewTile(b) == [base |-> b, marks |-> {}]

Key(z, x, y) == LET n == normalizeTile(z, x, y) IN <<z, n[1], n[2]>>
Keys == {Key(z, x, y) : z \in {zz \in ZoomInputs : ZoomOk(zz)}, x \in XInputs, y \in YInputs}

\* CombinedServer.Points.coords, when a point overlay is configured
PointCoords == <<[wx |-> 300, wy |-> 500]>>
Coords == IF cfg.points THEN PointCoords ELSE <<>>

\* CacheServer.Get behind the lock: [t, err]
CacheServerGet(mm, z, x, y) ==
    LET k == Key(z, x, y)
    IN IF k \notin DOMAIN mm THEN [t |-> NoTile, err |-> "tile is not cached"]
       ELSE [t |-> mm[k], err |-> "nil"]

CacheAddNever(mm, cap, z, x, y, t) ==
    LET k == Key(z, x, y)
    IN IF cap = 0 /\ Cardinality(DOMAIN mm) < cap
       THEN [kk \in DOMAIN mm \cup {k} |-> IF kk = k THEN t ELSE mm[kk]]
       ELSE mm

CacheAddEvict(mm, cap, z, x, y, t) ==
    LET k == Key(z, x, y)
    IN IF cap = 0 \/ Cardinality(DOMAIN mm) < cap
       THEN [kk \in DOMAIN mm \cup {k} |-> IF kk = k THEN t ELSE mm[kk]]
       ELSE [kk \in {k} |-> t]

CacheAddOffByOne(mm, cap, z, x, y, t) ==
    LET k == Key(z, x, y)
    IN IF cap = 0 \/ Cardinality(DOMAIN mm) <= cap
       THEN [kk \in DOMAIN mm \cup {k} |-> IF kk = k THEN t ELSE mm[kk]]
       ELSE mm

CacheAddZeroIsFull(mm, cap, z, x, y, t) ==
    LET k == Key(z, x, y)
    IN IF Cardinality(DOMAIN mm) < cap
       THEN [kk \in DOMAIN mm \cup {k} |-> IF kk = k THEN t ELSE mm[kk]]
       ELSE mm

CacheAddNegativeUnlimited(mm, cap, z, x, y, t) ==
    LET k == Key(z, x, y)
    IN IF cap <= 0 \/ Cardinality(DOMAIN mm) < cap
       THEN [kk \in DOMAIN mm \cup {k} |-> IF kk = k THEN t ELSE mm[kk]]
       ELSE mm

CacheAddKeepFirst(mm, cap, z, x, y, t) ==
    LET k == Key(z, x, y)
    IN IF (cap = 0 \/ Cardinality(DOMAIN mm) < cap) /\ k \notin DOMAIN mm
       THEN [kk \in DOMAIN mm \cup {k} |-> IF kk = k THEN t ELSE mm[kk]]
       ELSE mm

CacheAddDropOldest(mm, cap, z, x, y, t) ==
    LET k == Key(z, x, y)
    IN IF cap = 0 \/ Cardinality(DOMAIN mm) < cap \/ k \in DOMAIN mm \/ DOMAIN mm = {}
       THEN [kk \in DOMAIN mm \cup {k} |-> IF kk = k THEN t ELSE mm[kk]]
       ELSE [kk \in ((DOMAIN mm) \ {CHOOSE o \in DOMAIN mm : TRUE}) \cup {k} |->
                IF kk = k THEN t ELSE mm[kk]]

\* CacheServer.Add on an enabled cache (c.m != nil): the map after the call
CacheServerAdd(mm, cap, z, x, y, t) ==
    LET k == Key(z, x, y)
    IN IF cap = 0 \/ Cardinality(DOMAIN mm) < cap
       THEN [kk \in DOMAIN mm \cup {k} |-> IF kk = k THEN t ELSE mm[kk]]
       ELSE mm

decodePngTileAnySize(file) ==
    IF file.base = "bad" THEN [t |-> NoTile, err |-> "png"]
    ELSE [t |-> [base |-> file.base, marks |-> file.marks], err |-> "nil"]

\* decodePngTile on the content of a file or of a response: [t, err]
decodePngTile(file) ==
    IF file.base = "bad" THEN [t |-> NoTile, err |-> "png"]
    ELSE IF file.dx # 256 \/ file.dy # 256
    THEN [t |-> NoTile, err |-> "png tile size is not 256x256"]
    ELSE [t |-> [base |-> file.base, marks |-> file.marks], err |-> "nil"]

\* LocalServer.Get: [t, err]
LocalServerGet(dd, z, x, y) ==
    LET k == Key(z, x, y)
    IN IF dd[k] = NoFile THEN [t |-> NoTile, err |-> "open"]
       ELSE decodePngTile(dd[k])

LocalServerAddNoOverwrite(dd, z, x, y, t, out) ==
    LET k == Key(z, x, y)
    IN IF out = "ok" /\ dd[k] = NoFile THEN [dd EXCEPT ![k] = pngEncode(t)] ELSE dd

\* LocalServer.Add on a set path; out is what the filesystem does:
\* "ok", "fail" (MkdirAll or Create fails), "trunc" (png.Encode fails after Create)
LocalServerAdd(dd, z, x, y, t, out) ==
    LET k == Key(z, x, y)
    IN CASE out = "ok" -> [dd EXCEPT ![k] = pngEncode(t)]
         [] out = "trunc" -> [dd EXCEPT ![k] = BadFile]
         [] OTHER -> dd

\* The body of a response with status 200
HttpBody(out) ==
    CASE out = "ok" -> pngEncode(NewTile("http"))
      [] out = "size" -> [SmallPng EXCEPT !.base = "http"]
      [] OTHER -> BadFile

\* HttpServer.Get; out is what the network and the remote server do: the request
\* fails ("neterr"), the status is not 200 ("status"), or a body arrives: [t, err]
HttpServerGet(z, x, y, out) ==
    IF out \in {"neterr", "status"} THEN [t |-> NoTile, err |-> out]
    ELSE IF decodePngTile(HttpBody(out)).err # "nil"
    THEN [t |-> NoTile, err |-> "tile server did not return a valid png"]
    ELSE [t |-> decodePngTile(HttpBody(out)).t, err |-> "nil"]

HttpOutcomes == {"ok", "neterr", "status", "decode", "size"}
AddOutcomes == {"ok", "fail", "trunc"}

Call(layer, op, k, ok) == [layer |-> layer, op |-> op, key |-> k, ok |-> ok]

CacheEnabled == cfg.cache = "on"        \* c.Cache != nil && c.Cache.m != nil

firstHitLocalFirst(cg, lg, hg) ==
    IF cfg.local /\ lg.err = "nil" THEN "local"
    ELSE IF CacheEnabled /\ cg.err = "nil" THEN "cache"
    ELSE IF cfg.http /\ hg.err = "nil" THEN "http"
    ELSE "black"

\* The branch of CombinedServer.get that returns, given what the layers answer
firstHit(cg, lg, hg) ==
    IF CacheEnabled /\ cg.err = "nil" THEN "cache"
    ELSE IF cfg.local /\ lg.err = "nil" THEN "local"
    ELSE IF cfg.http /\ hg.err = "nil" THEN "http"
    ELSE "black"

\* CombinedServer.get behind its normalizeTile: [t, src, m, disk, calls]
getFrom(z, x, y, httpOut, addOut) ==
    LET k == Key(z, x, y)
        cg == CacheServerGet(m, z, x, y)
        lg == LocalServerGet(disk, z, x, y)
        hg == HttpServerGet(z, x, y, httpOut)
        src == firstHit(cg, lg, hg)
        c1 == IF CacheEnabled THEN <<Call("cache", "get", k, cg.err = "nil")>> ELSE <<>>
        c2 == IF cfg.local THEN c1 \o <<Call("local", "get", k, lg.err = "nil")>> ELSE c1
        c3 == IF cfg.http THEN c2 \o <<Call("http", "get", k, hg.err = "nil")>> ELSE c2
        cacheAdd == IF CacheEnabled THEN <<Call("cache", "add", k, TRUE)>> ELSE <<>>
        localAdd == IF cfg.local THEN <<Call("local", "add", k, addOut = "ok")>> ELSE <<>>
    IN CASE src = "cache" ->
              [t |-> cg.t, src |-> src, m |-> m, disk |-> disk, calls |-> c1]
         [] src = "local" ->
              [t |-> lg.t, src |-> src,
               m |-> IF CacheEnabled THEN CacheServerAdd(m, maxTiles, z, x, y, lg.t) ELSE m,
               disk |-> disk,
               calls |-> c2 \o cacheAdd]
         [] src = "http" ->
              [t |-> hg.t, src |-> src,
               m |-> IF CacheEnabled THEN CacheServerAdd(m, maxTiles, z, x, y, hg.t) ELSE m,
               disk |-> IF cfg.local THEN LocalServerAdd(disk, z, x, y, hg.t, addOut)
                        ELSE disk,
               calls |-> c3 \o localAdd \o cacheAdd]
         [] OTHER ->
              [t |-> black, src |-> "black", m |-> m, disk |-> disk, calls |-> c3]

\* CombinedServer.get
get(z, x, y, httpOut, addOut) ==
    LET n == normalizeTile(z, x, y) IN getFrom(z, n[1], n[2], httpOut, addOut)

\* The pixels CombinedServer.Get sets for the arguments z, x, y
PointMarks(z, x, y) ==
    {<<LatLonXY(Coords[i], z).xy.XP, LatLonXY(Coords[i], z).xy.YP>> :
        i \in {j \in 1 .. Len(Coords) :
                 /\ LatLonXY(Coords[j], z).err = "nil"
                 /\ LatLonXY(Coords[j], z).xy.X = x
                 /\ LatLonXY(Coords[j], z).xy.Y = y}}

\* t.Set for every point of the overlay that falls into the tile
Paint(t, z, x, y) == [t EXCEPT !.marks = @ \cup PointMarks(z, x, y)]

----------------------------------------------------------------------------
(* State of the tile sources and of the export before anything ran *)

EmptyMap == [k \in {} |-> NoTile]
NoHist == [hit |-> FALSE, room |-> FALSE, base |-> "nil"]
NoRet == [op |-> "none", z |-> 0, x |-> 0, y |-> 0, panic |-> FALSE, err |-> "nil",
          src |-> "none", tile |-> NoTile, prior |-> NoHist]
NoRow == [x |-> -1, y |-> -1, z |-> -1]
NoPos == [zi |-> 0, x |-> 0, y |-> 0]
NoCount == [n |-> 0, err |-> "nil"]
NoSparse == [z |-> 0, keys |-> <<>>, points |-> <<>>, p |-> 0]
NoXml == [created |-> FALSE, layers |-> <<>>, err |-> "nil"]

EmptyDisk == [k \in Keys |-> NoFile]
\* What the tile directory holds when the program starts
DiskScenarios ==
    {[k \in Keys |-> IF k[2] = 0 THEN NoFile ELSE pngEncode(NewTile("disk"))],
     [k \in Keys |-> IF k[2] = 0 THEN pngEncode(NewTile("disk")) ELSE BadFile]}

TileIdle ==
    /\ cfg = [cache |-> "nil", local |-> FALSE, http |-> FALSE, points |-> FALSE]
    /\ maxTiles = 0
    /\ m = EmptyMap
    /\ disk = EmptyDisk
    /\ black = SolidBlack
    /\ ret = NoRet
    /\ calls = <<>>
    /\ addOrder = <<>>
    /\ hist = [k \in Keys |-> NoHist]

OruxIdle ==
    /\ TopLeft = [wx |-> 0, wy |-> 0]
    /\ BottomRight = [wx |-> 0, wy |-> 0]
    /\ ZoomLevels = <<>>
    /\ encPc = "idle"
    /\ result = "pending"
    /\ countRes = NoCount
    /\ dirCreated = FALSE
    /\ cmdStarted = FALSE
    /\ prodPc = "idle"
    /\ pos = NoPos
    /\ gets = 0
    /\ rows = 0
    /\ lastGet = NoRow
    /\ lastRow = NoRow
    /\ ts = "server"
    /\ sparse = NoSparse
    /\ points = <<>>
    /\ missing = "none"
    /\ lastZi = 0
    /\ lastTile = NoTile
    /\ stream = <<>>
    /\ pipe = 0
    /\ pipeCap = 1
    /\ consPc = "idle"
    /\ xml = NoXml

NoArgs == [z |-> 0, x |-> 0, y |-> 0, p |-> [wx |-> 0, wy |-> 0]]
NoRes == [op |-> "none", panic |-> FALSE, err |-> "nil", x |-> 0, y |-> 0, n |-> 0,
          xy |-> NoXY, p |-> [wx |-> 0, wy |-> 0]]
NoProcs == <<>>
\* cmd/map before main runs: the zero values of its globals and locals
NoViewer == [pc |-> "start", Zoom |-> 0, Origin |-> [X |-> 0, Y |-> 0],
             dragging |-> FALSE, drag |-> [X |-> 0, Y |-> 0], paintPending |-> FALSE,
             sz |-> [WidthPx |-> 0, HeightPx |-> 0], pool |-> {},
             ev |-> "none", sent |-> FALSE, gets |-> {}]

OtherIdle ==
    /\ args = NoArgs
    /\ res = NoRes
    /\ uim = NoTile
    /\ lock = 0
    /\ procs = NoProcs
    /\ stored = {}
    /\ viewer = NoViewer

----------------------------------------------------------------------------
(* The bounded cache used on its own *)

\* NewCacheServer(maxTiles), or the zero CacheServer (m == nil)
InitCache ==
    /\ OtherIdle
    /\ cfg \in [cache : {"unset", "on"}, local : {FALSE}, http : {FALSE}, points : {FALSE}]
    /\ maxTiles \in CacheCapacities
    /\ cfg.cache = "unset" => maxTiles = 0
    /\ m = EmptyMap
    /\ disk = EmptyDisk
    /\ black = SolidBlack
    /\ ret = NoRet
    /\ calls = <<>>
    /\ addOrder = <<>>
    /\ hist = [k \in Keys |-> NoHist]
    /\ OruxIdle

Panic(op, z, x, y) == [NoRet EXCEPT !.op = op, !.z = z, !.x = x, !.y = y, !.panic = TRUE]

InSeq(s, e) == \E i \in 1 .. Len(s) : s[i] = e

\* CacheServer.Add
CacheAdd(z, x, y, t) ==
    /\ cfg.cache \in {"unset", "on"}
    /\ IF ~ZoomOk(z)
       THEN /\ ret' = Panic("CacheAdd", z, x, y)
            /\ UNCHANGED <<m, addOrder>>
       ELSE /\ m' = IF cfg.cache = "unset" THEN m
                     ELSE CacheServerAdd(m, maxTiles, z, x, y, t)
            /\ addOrder' = IF InSeq(addOrder, Key(z, x, y)) THEN addOrder
                            ELSE Append(addOrder, Key(z, x, y))
            /\ ret' = [NoRet EXCEPT !.op = "CacheAdd", !.z = z, !.x = x, !.y = y,
                                     !.tile = t]
    /\ UNCHANGED <<cfg, maxTiles, disk, black, calls, hist, oruxVars, otherVars>>

\* CacheServer.Get
CacheGet(z, x, y) ==
    /\ cfg.cache \in {"unset", "on"}
    /\ ret' = IF ~ZoomOk(z) THEN Panic("CacheGet", z, x, y)
              ELSE LET r == CacheServerGet(m, z, x, y)
                   IN [NoRet EXCEPT !.op = "CacheGet", !.z = z, !.x = x, !.y = y,
                                    !.err = r.err, !.tile = r.t,
                                    !.src = IF r.err = "nil" THEN "cache" ELSE "none"]
    /\ UNCHANGED <<cfg, maxTiles, m, disk, black, calls, addOrder, hist, oruxVars, otherVars>>

NextCache ==
    \/ \E z \in CacheZoomInputs, x \in CacheXInputs, y \in CacheYInputs, t \in TileIds :
          CacheAdd(z, x, y, NewTile(t))
    \/ \E z \in CacheZoomInputs, x \in CacheXInputs, y \in CacheYInputs :
          CacheGet(z, x, y)

SpecCache == InitCache /\ [][NextCache]_vars

\* C1: with capacity K > 0 the cache never holds more than K entries, and the
\* coordinates Get can retrieve are exactly the first K distinct (normalized)
\* coordinates that were passed to Add.
FirstAdded(n) ==
    {addOrder[i] : i \in 1 .. (IF Len(addOrder) < n THEN Len(addOrder) ELSE n)}
CacheAdmissionBound ==
    (cfg.cache = "on" /\ maxTiles > 0) =>
        /\ Cardinality(DOMAIN m) <= maxTiles
        /\ DOMAIN m = FirstAdded(maxTiles)
        /\ (ret.op = "CacheGet" /\ ~ret.panic) =>
              ((ret.err = "nil") <=> (Key(ret.z, ret.x, ret.y) \in FirstAdded(maxTiles)))
CacheAdmissionBoundWitness ==
    /\ cfg.cache = "on" /\ maxTiles > 0
    /\ Len(addOrder) > maxTiles
    /\ Cardinality(DOMAIN m) = maxTiles
    /\ ret.op = "CacheGet" /\ ~ret.panic /\ ret.err # "nil"
    /\ InSeq(addOrder, Key(ret.z, ret.x, ret.y))

----------------------------------------------------------------------------
(* The combined source *)

InitCombined ==
    /\ OtherIdle
    /\ cfg \in [cache : {"nil", "unset", "on"}, local : BOOLEAN, http : BOOLEAN,
                 points : BOOLEAN]
    /\ maxTiles \in Capacities
    /\ cfg.cache # "on" => maxTiles = 0
    /\ m = EmptyMap
    /\ disk \in (IF cfg.local THEN DiskScenarios ELSE {EmptyDisk})
    /\ black = SolidBlack
    /\ ret = NoRet
    /\ calls = <<>>
    /\ addOrder = <<>>
    /\ hist = [k \in Keys |-> NoHist]
    /\ OruxIdle

HasRoom == maxTiles = 0 \/ Cardinality(DOMAIN m) < maxTiles

\* The outcomes of the remote fetch and of the disk write that a Combined Get
\* can meet: one placeholder where the call is not made.
LocalMisses(z, x, y) == ~cfg.local \/ LocalServerGet(disk, z, x, y).err # "nil"
HttpReached(z, x, y) ==
    /\ cfg.http
    /\ Key(z, x, y) \notin DOMAIN m
    /\ LocalMisses(z, x, y)
HttpTried(z, x, y) == IF HttpReached(z, x, y) THEN HttpOutcomes ELSE {"neterr"}
AddTried(z, x, y) == IF HttpReached(z, x, y) /\ cfg.local THEN AddOutcomes ELSE {"fail"}

\* CombinedServer.Get
CombinedGet(z, x, y) ==
    /\ IF ~ZoomOk(z)
       THEN /\ ret' = Panic("CombinedGet", z, x, y)
            /\ calls' = <<>>
            /\ UNCHANGED <<m, disk, black, hist>>
       ELSE \E httpOut \in HttpTried(z, x, y), addOut \in AddTried(z, x, y) :
              LET r == get(z, x, y, httpOut, addOut)
                  k == Key(z, x, y)
                  t == IF cfg.points THEN Paint(r.t, z, x, y) ELSE r.t
              IN /\ m' = IF k \in DOMAIN r.m THEN [r.m EXCEPT ![k] = t] ELSE r.m
                 /\ black' = IF r.src = "black" THEN t ELSE black
                 /\ disk' = r.disk
                 /\ calls' = r.calls
                 /\ hist' = IF r.src = "local" /\ CacheEnabled /\ ~hist[k].hit
                            THEN [hist EXCEPT ![k] = [hit |-> TRUE, room |-> HasRoom,
                                                      base |-> r.t.base]]
                            ELSE hist
                 /\ ret' = [NoRet EXCEPT !.op = "CombinedGet", !.z = z, !.x = x, !.y = y,
                                          !.src = r.src, !.tile = t, !.prior = hist[k]]
    /\ UNCHANGED <<cfg, maxTiles, addOrder, oruxVars, otherVars>>

\* LocalServer.Add; cfg.local tells whether the base path is set
LocalAdd(z, x, y, t, out) ==
    /\ IF ~ZoomOk(z)
       THEN /\ ret' = Panic("LocalAdd", z, x, y)
            /\ calls' = <<>>
            /\ disk' = disk
       ELSE IF ~cfg.local
       THEN /\ ret' = [NoRet EXCEPT !.op = "LocalAdd", !.z = z, !.x = x, !.y = y,
                                     !.tile = t,
                                     !.err = "the local tile server path is unset"]
            /\ calls' = <<>>
            /\ disk' = disk
       ELSE /\ disk' = LocalServerAdd(disk, z, x, y, t, out)
            /\ ret' = [NoRet EXCEPT !.op = "LocalAdd", !.z = z, !.x = x, !.y = y,
                                     !.tile = t,
                                     !.err = IF out = "ok" THEN "nil" ELSE out]
            /\ calls' = <<Call("local", "add", Key(z, x, y), out = "ok")>>
    /\ UNCHANGED <<cfg, maxTiles, m, black, addOrder, hist, oruxVars, otherVars>>

\* CombinedServer.Get, and another user of the tile directory who adds tiles
NextCombined ==
    \/ \E z \in ZoomInputs, x \in XInputs, y \in YInputs : CombinedGet(z, x, y)
    \/ \E z \in ZoomInputs, x \in XInputs, y \in YInputs :
          /\ cfg.local
          /\ ZoomOk(z)
          /\ LocalAdd(z, x, y, NewTile("ext"), "ok")

SpecCombined == InitCombined /\ [][NextCombined]_vars

----------------------------------------------------------------------------
(* Every tile source called on its own *)

SourceDisks ==
    DiskScenarios \cup {[k \in Keys |-> IF k[2] = 0 THEN NoFile ELSE SmallPng]}

\* A CombinedServer and its layers, each of which the program can also call directly
InitSources ==
    /\ cfg \in [cache : {"unset", "on"}, local : BOOLEAN, http : BOOLEAN,
                 points : {FALSE}]
    /\ maxTiles \in Capacities
    /\ cfg.cache # "on" => maxTiles = 0
    /\ m = EmptyMap
    /\ disk \in SourceDisks
    /\ black = SolidBlack
    /\ ret = NoRet
    /\ calls = <<>>
    /\ addOrder = <<>>
    /\ hist = [k \in Keys |-> NoHist]
    /\ OruxIdle
    /\ OtherIdle

sourceFrame ==
    <<cfg, maxTiles, m, black, addOrder, hist, oruxVars, args, res, lock, procs, stored, viewer>>

\* LocalServer.Get
LocalGet(z, x, y) ==
    /\ IF ~ZoomOk(z)
       THEN /\ ret' = Panic("LocalGet", z, x, y)
            /\ calls' = <<>>
       ELSE LET r == LocalServerGet(disk, z, x, y)
            IN /\ ret' = [NoRet EXCEPT !.op = "LocalGet", !.z = z, !.x = x, !.y = y,
                                        !.err = r.err, !.tile = r.t,
                                        !.src = IF r.err = "nil" THEN "local" ELSE "none"]
               /\ calls' = <<Call("local", "get", Key(z, x, y), r.err = "nil")>>
    /\ UNCHANGED <<disk, uim, sourceFrame>>

\* HttpServer.Get
HttpGet(z, x, y, out) ==
    /\ IF ~ZoomOk(z)
       THEN /\ ret' = Panic("HttpGet", z, x, y)
            /\ calls' = <<>>
       ELSE LET r == HttpServerGet(z, x, y, out)
            IN /\ ret' = [NoRet EXCEPT !.op = "HttpGet", !.z = z, !.x = x, !.y = y,
                                        !.err = r.err, !.tile = r.t,
                                        !.src = IF r.err = "nil" THEN "http" ELSE "none"]
               /\ calls' = <<Call("http", "get", Key(z, x, y), r.err = "nil")>>
    /\ UNCHANGED <<disk, uim, sourceFrame>>

UniformGetLazyFirst(z, x, y) ==
    /\ uim' = NewTile("uniform")
    /\ ret' = IF ~ZoomOk(z) THEN Panic("UniformGet", z, x, y)
              ELSE [NoRet EXCEPT !.op = "UniformGet", !.z = z, !.x = x, !.y = y,
                                 !.src = "uniform", !.tile = uim']
    /\ calls' = <<>>
    /\ UNCHANGED <<disk, sourceFrame>>

\* UniformServer.Get: the raster is made on the first call and returned by all
UniformGet(z, x, y) ==
    /\ IF ~ZoomOk(z)
       THEN /\ ret' = Panic("UniformGet", z, x, y)
            /\ uim' = uim
       ELSE /\ uim' = IF uim = NoTile THEN NewTile("uniform") ELSE uim
            /\ ret' = [NoRet EXCEPT !.op = "UniformGet", !.z = z, !.x = x, !.y = y,
                                     !.src = "uniform", !.tile = uim']
    /\ calls' = <<>>
    /\ UNCHANGED <<disk, sourceFrame>>

SourceXInputs == {-1}
SourceYInputs == {2}

NextSources ==
    \/ \E z \in ZoomInputs, x \in SourceXInputs, y \in SourceYInputs : CacheAdd(z, x, y, NewTile("t1"))
    \/ \E z \in ZoomInputs, x \in SourceXInputs, y \in SourceYInputs : CacheGet(z, x, y)
    \/ \E z \in ZoomInputs, x \in XInputs, y \in SourceYInputs, out \in AddOutcomes :
          LocalAdd(z, x, y, NewTile("ext"), out)
    \/ \E z \in ZoomInputs, x \in XInputs, y \in SourceYInputs : LocalGet(z, x, y)
    \/ \E z \in ZoomInputs, x \in SourceXInputs, y \in SourceYInputs, out \in HttpOutcomes :
          HttpGet(z, x, y, out)
    \/ \E z \in ZoomInputs, x \in SourceXInputs, y \in SourceYInputs : UniformGet(z, x, y)
    \/ \E z \in ZoomInputs, x \in SourceXInputs, y \in SourceYInputs : CombinedGet(z, x, y)

SpecSources == InitSources /\ [][NextSources]_vars

----------------------------------------------------------------------------
(* Claims about the combined source *)

IsCombinedGet(r) == r.op = "CombinedGet" /\ ~r.panic
IsGetCall(c) == c.op = "get"
IsAddCall(c) == c.op = "add"
GetCalls(cs) == SelectSeq(cs, IsGetCall)
AddCalls(cs) == SelectSeq(cs, IsAddCall)
Layers == {"cache", "local", "http"}
Rank(l) == CASE l = "cache" -> 1 [] l = "local" -> 2 [] l = "http" -> 3
Configured(l) ==
    CASE l = "cache" -> CacheEnabled [] l = "local" -> cfg.local [] l = "http" -> cfg.http
RetKey == Key(ret.z, ret.x, ret.y)

\* C2: Combined Get consults the configured layers in the order Cache, Local-Disk,
\* Remote, stops at the first hit and returns it; a layer is consulted only if it
\* is configured and every configured layer before it missed.
FallbackOrder ==
    IsCombinedGet(ret) =>
        LET g == GetCalls(calls)
        IN /\ \A i \in 1 .. Len(g) : Configured(g[i].layer) /\ g[i].key = RetKey
           /\ \A i, j \in 1 .. Len(g) : i < j => Rank(g[i].layer) < Rank(g[j].layer)
           /\ \A i \in 1 .. Len(g) - 1 : ~g[i].ok
           /\ \A l \in Layers :
                 (Configured(l) /\ ~\E i \in 1 .. Len(g) : g[i].layer = l) =>
                     \E i \in 1 .. Len(g) : g[i].ok /\ Rank(g[i].layer) < Rank(l)
           /\ ret.src = IF Len(g) > 0 /\ g[Len(g)].ok THEN g[Len(g)].layer ELSE "black"
           /\ ret.src = "cache" => RetKey \in DOMAIN m /\ ret.tile = m[RetKey]
           /\ ret.src = "local" => ret.tile.base = disk[RetKey].base
           /\ ret.src = "http" => ret.tile.base = "http"
FallbackOrderWitness ==
    /\ IsCombinedGet(ret)
    /\ CacheEnabled /\ cfg.local /\ cfg.http
    /\ ret.src = "local"
    /\ Len(GetCalls(calls)) = 2

\* C3 as stated: once Local-Disk resolved a coordinate behind a configured cache
\* that missed (Remote configured), every later Combined Get of the coordinate is
\* answered by the cache with that tile and does not read Local-Disk.
LocalHitThenCacheAlways ==
    (IsCombinedGet(ret) /\ cfg.http /\ ret.prior.hit) =>
        /\ ret.src = "cache"
        /\ ret.tile.base = ret.prior.base
        /\ \A i \in 1 .. Len(calls) : calls[i].layer # "local"

\* C3 amended: the same, when the cache had not reached its capacity at the time
\* of the Local-Disk hit (maxTiles is 0 or exceeds the number of entries).
LocalHitThenCache ==
    (IsCombinedGet(ret) /\ cfg.http /\ ret.prior.hit /\ ret.prior.room) =>
        /\ ret.src = "cache"
        /\ ret.tile.base = ret.prior.base
        /\ \A i \in 1 .. Len(calls) : calls[i].layer # "local"
LocalHitThenCacheWitness ==
    /\ IsCombinedGet(ret) /\ cfg.http
    /\ ret.prior.hit /\ ret.prior.room
    /\ ret.src = "cache"
    /\ disk[RetKey].base # ret.prior.base

\* C4: the backfill of a Combined Get. Resolved by Local-Disk: one Cache Add of the
\* coordinate (if a cache is configured) and no write to Local-Disk. Resolved by
\* Remote: Local-Disk Add, then Cache Add, each if configured. Resolved by the
\* cache or the fallback: no Add, and the entries of the cache and the files are
\* as before. No other coordinate's entry or file changes. (The point overlay may
\* paint the cached raster in place; the map still holds the same tile.)
SameEntries(m1, m2) ==
    /\ DOMAIN m1 = DOMAIN m2
    /\ \A k \in DOMAIN m1 : m1[k].base = m2[k].base
BackfillStep ==
    IsCombinedGet(ret') =>
        LET k == Key(ret'.z, ret'.x, ret'.y)
            a == AddCalls(calls')
            cacheAdd == IF CacheEnabled THEN <<Call("cache", "add", k, TRUE)>> ELSE <<>>
        IN /\ \A kk \in DOMAIN m : kk # k => (kk \in DOMAIN m' /\ m'[kk] = m[kk])
           /\ \A kk \in DOMAIN m' : kk # k => kk \in DOMAIN m
           /\ \A kk \in Keys : kk # k => disk'[kk] = disk[kk]
           /\ ret'.src = "local" => a = cacheAdd /\ disk' = disk
           /\ ret'.src = "http" =>
                 /\ Len(a) = (IF cfg.local THEN 1 ELSE 0) + Len(cacheAdd)
                 /\ cfg.local => a[1].layer = "local" /\ a[1].key = k
                 /\ CacheEnabled => a[Len(a)] = Call("cache", "add", k, TRUE)
                 /\ ~cfg.local => disk' = disk
                 /\ ~CacheEnabled => m' = m
           /\ ret'.src \in {"cache", "black"} =>
                 a = <<>> /\ disk' = disk /\ SameEntries(m, m')
BackfillFrame == [][BackfillStep]_vars
BackfillFrameWitness ==
    /\ IsCombinedGet(ret) /\ ret.src = "http"
    /\ CacheEnabled /\ cfg.local
    /\ Len(AddCalls(calls)) = 2
    /\ Cardinality(DOMAIN m) = 1 /\ RetKey \notin DOMAIN m

\* C5: a Combined Get with a zoom in [0,24] returns a tile and no error, and when
\* no layer resolves the coordinate the tile is the black fallback: black but for
\* the overlay points of the requested coordinate.
NeverFailsBlackFallback ==
    IsCombinedGet(ret) =>
        /\ ret.err = "nil"
        /\ ret.tile # NoTile
        /\ ret.src = "black" =>
              /\ ret.tile.base = "black"
              /\ ret.tile.marks \subseteq PointMarks(ret.z, ret.x, ret.y)

----------------------------------------------------------------------------
(* The sparse point server *)

IndexOf(seq, e) ==
    IF \E i \in 1 .. Len(seq) : seq[i] = e
    THEN CHOOSE i \in 1 .. Len(seq) : seq[i] = e
    ELSE 0

\* The loop of NewSparsePointServer from point i on: [s, err].  s.points is the
\* map of the code as a list parallel to s.keys.
RECURSIVE AddPoints(_, _, _)
AddPoints(s, pts, i) ==
    IF i > Len(pts) THEN [s |-> s, err |-> "nil"]
    ELSE LET r == LatLonXY(pts[i], s.z)
             key == [x |-> r.xy.X, y |-> r.xy.Y]
             px == [x |-> r.xy.XP, y |-> r.xy.YP]
             idx == IndexOf(s.keys, key)
         IN IF r.err # "nil" THEN [s |-> NoSparse, err |-> r.err]
            ELSE AddPoints(IF idx = 0
                           THEN [s EXCEPT !.keys = Append(@, key),
                                          !.points = Append(@, <<px>>)]
                           ELSE [s EXCEPT !.points[idx] = Append(@, px)],
                           pts, i + 1)

\* NewSparsePointServer without its test of the zoom
NewSparsePointServerNoZoomTest(z, pts) ==
    AddPoints([z |-> z, keys |-> <<>>, points |-> <<>>, p |-> 0], pts, 1)

NewSparsePointServer(z, pts) ==
    IF z < 0 \/ z > 24 THEN [s |-> NoSparse, err |-> "ZoomRangeError"]
    ELSE AddPoints([z |-> z, keys |-> <<>>, points |-> <<>>, p |-> 0], pts, 1)

\* SparsePointServer.Get: [t, err]
SparsePointServerGet(s, z, x, y) ==
    LET idx == IndexOf(s.keys, [x |-> x, y |-> y])
    IN IF z # s.z THEN [t |-> NoTile, err |-> "zoom level not available"]
       ELSE [t |-> [base |-> "alpha",
                    marks |-> IF idx = 0 THEN {}
                              ELSE {<<s.points[idx][i].x, s.points[idx][i].y>> :
                                      i \in 1 .. Len(s.points[idx])}],
             err |-> "nil"]

\* SparsePointServer.Next: [z, x, y, t, err, s].  The Get call is made with the
\* named results z, x, y, which are still zero.
SparsePointServerNext(s) ==
    IF s.p >= Len(s.keys)
    THEN [z |-> 0, x |-> 0, y |-> 0, t |-> NoTile, err |-> "EOF", s |-> s]
    ELSE LET key == s.keys[s.p + 1]
             g == SparsePointServerGet(s, 0, 0, 0)
         IN [z |-> s.z, x |-> key.x, y |-> key.y, t |-> g.t, err |-> g.err,
             s |-> [s EXCEPT !.p = @ + 1]]

----------------------------------------------------------------------------
(* The export pipeline *)

tileLimit == 40

MaxPipe == 2         \* largest capacity of the stdin pipe tried, in writes

ZoomChoices == {1, 3, 25}
LonCoords == {0, 700, 900, 2047}
LatCoords == {-1, 0, 700, 900, 2047}
\* The corners of the regions tried: <<wx, wy>>
CornerChoices ==
    {<<0, 0>>, <<700, 700>>, <<700, 900>>, <<900, 700>>, <<900, 900>>, <<2047, 700>>,
     <<2047, 2047>>, <<0, -1>>}
Corners == {c \in [wx : LonCoords, wy : LatCoords] : <<c.wx, c.wy>> \in CornerChoices}
\* The tiles the plain tile source lacks: none, all, or those with x + y odd
MissChoices == {"none", "all", "odd"}
\* The zoom and the point list of the sparse point servers handed to Encode
SparseInputs ==
    {[z |-> 0, pts |-> <<[wx |-> 300, wy |-> 500]>>],
     [z |-> 3, pts |-> <<[wx |-> 300, wy |-> 500], [wx |-> 1900, wy |-> 100],
                         [wx |-> 310, wy |-> 510]>>]}
SparseScenarios == {NewSparsePointServer(i.z, i.pts).s : i \in SparseInputs}

SeqsUpTo(S, n) == UNION {[1 .. k -> S] : k \in 0 .. n}

\* m.TopLeft.XY(z) and m.BottomRight.XY(z) with the error dropped (tl, _ := ...)
TL(z) == LatLonXY(TopLeft, z).xy
BR(z) == LatLonXY(BottomRight, z).xy

LevelErrNoY(z) ==
    IF LatLonXY(TopLeft, z).err # "nil" THEN LatLonXY(TopLeft, z).err
    ELSE IF LatLonXY(BottomRight, z).err # "nil" THEN LatLonXY(BottomRight, z).err
    ELSE IF BR(z).X < TL(z).X THEN "wrong definition"
    ELSE "nil"

\* The body of the loop of Map.Count for one zoom level: the error it returns
LevelErr(z) ==
    IF LatLonXY(TopLeft, z).err # "nil" THEN LatLonXY(TopLeft, z).err
    ELSE IF LatLonXY(BottomRight, z).err # "nil" THEN LatLonXY(BottomRight, z).err
    ELSE IF BR(z).X < TL(z).X \/ BR(z).Y < TL(z).Y THEN "wrong definition"
    ELSE "nil"

\* ... and what it adds to sum
LevelSum(z) == (BR(z).X - TL(z).X) * (BR(z).Y - TL(z).Y)

RECURSIVE CountFrom(_, _)
CountFrom(i, sum) ==
    IF i > Len(ZoomLevels) THEN [n |-> sum, err |-> "nil"]
    ELSE IF LevelErr(ZoomLevels[i]) # "nil" THEN [n |-> 0, err |-> LevelErr(ZoomLevels[i])]
    ELSE CountFrom(i + 1, sum + LevelSum(ZoomLevels[i]))

\* Map.Count
Count == CountFrom(1, 0)

\* The zero LatLon{}: latitude 0, longitude 0
NoLatLon == [wx |-> WorldSize \div 2, wy |-> WorldSize \div 2]

XYLatLonTileCorner(xy) ==
    [wx |-> GoDiv(xy.X * 256 * WorldSize, 256 * Pow2(xy.Z)),
     wy |-> GoDiv(xy.Y * 256 * WorldSize, 256 * Pow2(xy.Z))]

\* XY.LatLon: the point of pixel (XP, YP) of tile (X, Y), in projected coordinates
XYLatLon(xy) ==
    [wx |-> GoDiv((xy.X * 256 + xy.XP) * WorldSize, 256 * Pow2(xy.Z)),
     wy |-> GoDiv((xy.Y * 256 + xy.YP) * WorldSize, 256 * Pow2(xy.Z))]

\* MaxLatitude and MinLatitude(z) as projected rows: the top of the world and the
\* row of pixel (255, 255) of the last tile
MaxLatitude == 0
MinLatitude(z) ==
    XYLatLon([X |-> Pow2(z) - 1, Y |-> Pow2(z) - 1, Z |-> z, XP |-> 255, YP |-> 255]).wy

\* The element of a one-element set.  { e(x) : x \in {v} } computes v once.
The(S) == CHOOSE x \in S : TRUE

expandTileCornersInset(z) ==
    The({IF a.err # "nil"
         THEN [tl |-> NoLatLon, br |-> NoLatLon, nx |-> 0, ny |-> 0, err |-> a.err]
         ELSE IF b.err # "nil"
         THEN [tl |-> XYLatLon([a.xy EXCEPT !.XP = 1, !.YP = 1]), br |-> NoLatLon,
               nx |-> 0, ny |-> 0, err |-> b.err]
         ELSE [tl |-> XYLatLon([a.xy EXCEPT !.XP = 1, !.YP = 1]),
               br |-> XYLatLon([b.xy EXCEPT !.XP = 254, !.YP = 254]),
               nx |-> b.xy.X - a.xy.X + 1, ny |-> b.xy.Y - a.xy.Y + 1, err |-> "nil"] :
         a \in {LatLonXY(TopLeft, z)}, b \in {LatLonXY(BottomRight, z)}})

\* Map.expandTileCorners: the corners of the region snapped to the tile
\* boundaries and the number of tiles in x and y direction; a and b are what
\* m.TopLeft.XY(zoom) and m.BottomRight.XY(zoom) return
expandTileCorners(z) ==
    The({IF a.err # "nil"
         THEN [tl |-> NoLatLon, br |-> NoLatLon, nx |-> 0, ny |-> 0, err |-> a.err]
         ELSE IF b.err # "nil"
         THEN [tl |-> XYLatLon([a.xy EXCEPT !.XP = 0, !.YP = 0]), br |-> NoLatLon,
               nx |-> 0, ny |-> 0, err |-> b.err]
         ELSE [tl |-> XYLatLon([a.xy EXCEPT !.XP = 0, !.YP = 0]),
               br |-> XYLatLon([b.xy EXCEPT !.XP = 255, !.YP = 255]),
               nx |-> b.xy.X - a.xy.X + 1, ny |-> b.xy.Y - a.xy.Y + 1, err |-> "nil"] :
         a \in {LatLonXY(TopLeft, z)}, b \in {LatLonXY(BottomRight, z)}})

\* One element of x.Layers as WriteXML fills it.  The latitudes are carried as
\* projected coordinates (a smaller wy is a larger latitude); the rounding of
\* %f to six decimals is below the resolution of the model.
xmlLayer(z) ==
    The({[Name |-> z, Zoom |-> z, Xmax |-> e.nx, Ymax |-> e.ny,
          MinLat |-> e.br.wy, MaxLat |-> e.tl.wy, MinLon |-> e.tl.wx, MaxLon |-> e.br.wx] :
         e \in {expandTileCorners(z)}})

\* xmlTemplate: the calibration record written for the layer x
xmlTemplate(x) ==
    The({[layerLevel |-> l.Zoom, file_name |-> l.Name, xMax |-> l.Xmax, yMax |-> l.Ymax,
          minLat |-> l.MinLat, maxLat |-> l.MaxLat, minLon |-> l.MinLon,
          maxLon |-> l.MinLon,
          TL |-> [lon |-> l.MinLon, lat |-> l.MaxLat],
          BR |-> [lon |-> l.MaxLon, lat |-> l.MinLat],
          TR |-> [lon |-> l.MaxLon, lat |-> l.MaxLat],
          BL |-> [lon |-> l.MinLon, lat |-> l.MinLat]] :
         l \in {x}})

\* The index of the first zoom level whose corners cannot be expanded, or 0
FirstBadLevel ==
    IF \E i \in 1 .. Len(ZoomLevels) : expandTileCorners(ZoomLevels[i]).err # "nil"
    THEN CHOOSE i \in 1 .. Len(ZoomLevels) :
            /\ expandTileCorners(ZoomLevels[i]).err # "nil"
            /\ \A j \in 1 .. i - 1 : expandTileCorners(ZoomLevels[j]).err = "nil"
    ELSE 0

\* Map.WriteXML.  out is what the filesystem does: "ok", "nocreate" (os.Create
\* fails) or "short" (t.Execute fails after k complete records).
WriteXML(out, k) ==
    IF out = "nocreate" THEN [created |-> FALSE, layers |-> <<>>, err |-> "create"]
    ELSE IF FirstBadLevel # 0
    THEN [created |-> TRUE, layers |-> <<>>,
          err |-> expandTileCorners(ZoomLevels[FirstBadLevel]).err]
    ELSE IF out = "short"
    THEN [created |-> TRUE,
          layers |-> [i \in 1 .. k |-> xmlTemplate(xmlLayer(ZoomLevels[i]))],
          err |-> "execute"]
    ELSE [created |-> TRUE,
          layers |-> [i \in 1 .. Len(ZoomLevels) |-> xmlTemplate(xmlLayer(ZoomLevels[i]))],
          err |-> "nil"]
XmlOutcomes == {"ok", "nocreate", "short"}
\* The number of complete records a failing t.Execute can leave behind
ShortWrites(out) == IF out = "short" THEN 0 .. Len(ZoomLevels) ELSE {0}

insertTileAbsolute(z, x, y, x0, y0) == [x |-> x, y |-> y, z |-> z]

\* insertTile: the key of the INSERT statement
insertTile(z, x, y, x0, y0) == [x |-> x - x0, y |-> y - y0, z |-> z]

sqlEndCommitFirst == <<"commit", "index">>

\* The statements of sqlStart and sqlEnd
sqlStart == <<"pragma", "begin", "create">>
sqlEnd == <<"index", "commit">>

\* The first iteration of the loops of sqlitePipe from list index zi on
Done == [zi |-> 0, x |-> 0, y |-> 0]
RECURSIVE FirstFrom(_)
FirstFrom(zi) ==
    IF zi > Len(ZoomLevels) THEN Done
    ELSE LET z == ZoomLevels[zi]
         IN IF TL(z).X <= BR(z).X /\ TL(z).Y <= BR(z).Y
            THEN [zi |-> zi, x |-> TL(z).X, y |-> TL(z).Y]
            ELSE FirstFrom(zi + 1)

AdvanceYMajor(q) ==
    LET z == ZoomLevels[q.zi]
    IN IF q.x + 1 <= BR(z).X THEN [q EXCEPT !.x = @ + 1]
       ELSE IF q.y + 1 <= BR(z).Y THEN [q EXCEPT !.y = @ + 1, !.x = TL(z).X]
       ELSE FirstFrom(q.zi + 1)

\* y++, x++ and the next zoom level
Advance(q) ==
    LET z == ZoomLevels[q.zi]
    IN IF q.y + 1 <= BR(z).Y THEN [q EXCEPT !.y = @ + 1]
       ELSE IF q.x + 1 <= BR(z).X THEN [q EXCEPT !.x = @ + 1, !.y = TL(z).Y]
       ELSE FirstFrom(q.zi + 1)

\* The arguments of Encode and the pipe of the operating system
regionVars == <<TopLeft, BottomRight, ZoomLevels, ts, points, missing, pipeCap>>
\* What the goroutine running sqlitePipe changes
prodVars == <<prodPc, pos, gets, rows, lastGet, lastRow, lastZi, lastTile, stream, sparse>>

InitOrux ==
    /\ OtherIdle
    /\ TileIdle
    /\ TopLeft \in Corners
    /\ BottomRight \in Corners
    /\ ZoomLevels \in SeqsUpTo(ZoomChoices, MaxZoomLevels)
    /\ ts \in {"server", "sparse"}
    /\ IF ts = "sparse"
       THEN /\ \E i \in SparseInputs :
                  points = i.pts /\ sparse = NewSparsePointServer(i.z, i.pts).s
            /\ missing = "none"
       ELSE points = <<>> /\ sparse = NoSparse /\ missing \in MissChoices
    /\ pipeCap \in 1 .. MaxPipe
    /\ encPc = "start"
    /\ result = "pending"
    /\ countRes = NoCount
    /\ dirCreated = FALSE
    /\ cmdStarted = FALSE
    /\ prodPc = "idle"
    /\ pos = NoPos
    /\ gets = 0
    /\ rows = 0
    /\ lastGet = NoRow
    /\ lastRow = NoRow
    /\ lastZi = 0
    /\ lastTile = NoTile
    /\ stream = <<>>
    /\ pipe = 0
    /\ consPc = "idle"
    /\ xml = NoXml

\* Encode: the size guard
EncodeCount ==
    /\ encPc = "start"
    /\ countRes' = Count
    /\ IF Count.err # "nil" THEN encPc' = "done" /\ result' = Count.err
       ELSE IF Count.n > tileLimit THEN encPc' = "done" /\ result' = "too large"
       ELSE encPc' = "mkdir" /\ result' = result
    /\ UNCHANGED <<tileVars, otherVars, regionVars, prodVars, dirCreated, cmdStarted, pipe, consPc, xml>>

\* Encode: os.Mkdir
EncodeMkdir ==
    /\ encPc = "mkdir"
    /\ \E ok \in BOOLEAN :
         IF ok THEN dirCreated' = TRUE /\ encPc' = "pipe" /\ result' = result
         ELSE dirCreated' = dirCreated /\ encPc' = "done" /\ result' = "mkdir"
    /\ UNCHANGED <<tileVars, otherVars, regionVars, prodVars, countRes, cmdStarted, pipe, consPc, xml>>

\* Encode: cmd.StdinPipe, go m.sqlitePipe and the start of sqlite3 by
\* cmd.CombinedOutput
EncodePipe ==
    /\ encPc = "pipe"
    /\ \E out \in {"ok", "nopipe", "nostart"} :
         CASE out = "ok" ->
                encPc' = "wait" /\ prodPc' = "begin" /\ cmdStarted' = TRUE
                /\ consPc' = "running" /\ result' = result
           [] out = "nopipe" ->
                encPc' = "done" /\ prodPc' = prodPc /\ cmdStarted' = cmdStarted
                /\ consPc' = consPc /\ result' = "stdinpipe"
           [] out = "nostart" ->
                encPc' = "done" /\ prodPc' = "begin" /\ cmdStarted' = cmdStarted
                /\ consPc' = consPc /\ result' = "sqlite3"
    /\ UNCHANGED <<tileVars, otherVars, regionVars, countRes, dirCreated, pos, gets, rows, lastGet,
                   lastRow, lastZi, lastTile, stream, sparse, pipe, xml>>

ConsumerReadAfterProducer ==
    /\ consPc = "running"
    /\ prodPc = "closed"
    /\ pipe > 0
    /\ pipe' = pipe - 1
    /\ UNCHANGED <<tileVars, otherVars, regionVars, prodVars, encPc, result, countRes, dirCreated,
                   cmdStarted, consPc, xml>>

\* sqlite3 reads one write from its standard input
ConsumerRead ==
    /\ consPc = "running"
    /\ pipe > 0
    /\ pipe' = pipe - 1
    /\ UNCHANGED <<tileVars, otherVars, regionVars, prodVars, encPc, result, countRes, dirCreated,
                   cmdStarted, consPc, xml>>

\* sqlite3 exits at the end of its input, with a status of zero or, if a
\* statement failed, non-zero
ConsumerExit ==
    /\ consPc = "running"
    /\ pipe = 0
    /\ prodPc = "closed"
    /\ consPc' \in {"ok", "failed"}
    /\ pipe' = pipe
    /\ UNCHANGED <<tileVars, otherVars, regionVars, prodVars, encPc, result, countRes, dirCreated,
                   cmdStarted, xml>>

\* sqlite3 fails before it has read all of its input; what is left in the pipe
\* is lost
ConsumerAbort ==
    /\ consPc = "running"
    /\ consPc' = "failed"
    /\ pipe' = 0
    /\ UNCHANGED <<tileVars, otherVars, regionVars, prodVars, encPc, result, countRes, dirCreated,
                   cmdStarted, xml>>

EncodeWaitEarly ==
    /\ encPc = "wait"
    /\ \/ encPc' = "xml" /\ result' = result
       \/ consPc = "failed" /\ encPc' = "done" /\ result' = "sqlite3"
    /\ UNCHANGED <<tileVars, otherVars, regionVars, prodVars, countRes, dirCreated, cmdStarted, pipe,
                   consPc, xml>>

\* Encode: cmd.CombinedOutput returns when sqlite3 has exited
EncodeWait ==
    /\ encPc = "wait"
    /\ \/ consPc = "ok" /\ encPc' = "xml" /\ result' = result
       \/ consPc = "failed" /\ encPc' = "done" /\ result' = "sqlite3"
    /\ UNCHANGED <<tileVars, otherVars, regionVars, prodVars, countRes, dirCreated, cmdStarted, pipe,
                   consPc, xml>>

EncodeXMLErrorDropped ==
    /\ encPc = "xml"
    /\ encPc' = "done"
    /\ \E out \in XmlOutcomes : \E k \in ShortWrites(out) :
          /\ xml' = WriteXML(out, k)
          /\ result' = "nil"
    /\ UNCHANGED <<tileVars, otherVars, regionVars, prodVars, countRes, dirCreated, cmdStarted, pipe,
                   consPc>>

\* Encode: m.WriteXML
EncodeXML ==
    /\ encPc = "xml"
    /\ encPc' = "done"
    /\ \E out \in XmlOutcomes : \E k \in ShortWrites(out) :
          /\ xml' = WriteXML(out, k)
          /\ result' = xml'.err
    /\ UNCHANGED <<tileVars, otherVars, regionVars, prodVars, countRes, dirCreated, cmdStarted, pipe,
                   consPc>>

\* A write to wc blocks while the pipe is full; it fails at once (the error is
\* dropped) when sqlite3 is not running.
PipeOpen == consPc = "running"
CanWrite == ~PipeOpen \/ pipe < pipeCap
Written == IF PipeOpen THEN pipe + 1 ELSE pipe

\* sqlitePipe: wc.Write(sqlStart) and the entry into the loops
ProducerBegin ==
    /\ prodPc = "begin"
    /\ CanWrite
    /\ stream' = stream \o sqlStart
    /\ pipe' = Written
    /\ IF ts = "sparse" THEN prodPc' = "next" /\ pos' = pos
       ELSE IF FirstFrom(1) = Done THEN prodPc' = "end" /\ pos' = pos
       ELSE prodPc' = "loop" /\ pos' = FirstFrom(1)
    /\ UNCHANGED <<tileVars, otherVars, regionVars, encPc, result, countRes, dirCreated, cmdStarted,
                   gets, rows, lastGet, lastRow, lastZi, lastTile, sparse, consPc, xml>>

\* What ts.Get of the plain tile source returns to sqlitePipe: a tile or nil
TsGet(z, x, y) ==
    IF missing = "all" \/ (missing = "odd" /\ (x + y) % 2 = 1) THEN NoTile
    ELSE NewTile("png")

InsertsAlways(t) == TRUE

\* sqlitePipe: the test that decides whether a row is written (t != nil)
Inserts(t) == t # NoTile

\* sqlitePipe: one iteration of the inner loop, ts.Get and insertTile
ProducerGet ==
    /\ prodPc = "loop"
    /\ LET z == ZoomLevels[pos.zi]
       IN /\ gets' = gets + 1
          /\ lastGet' = [x |-> pos.x, y |-> pos.y, z |-> z]
          /\ lastZi' = pos.zi
          /\ lastTile' = TsGet(z, pos.x, pos.y)
          /\ IF Inserts(TsGet(z, pos.x, pos.y))
             THEN /\ CanWrite
                  /\ rows' = rows + 1
                  /\ lastRow' = insertTile(z, pos.x, pos.y, TL(z).X, TL(z).Y)
                  /\ stream' = Append(stream, "row")
                  /\ pipe' = Written
             ELSE /\ rows' = rows
                  /\ lastRow' = NoRow
                  /\ stream' = stream
                  /\ pipe' = pipe
    /\ IF Advance(pos) = Done THEN prodPc' = "end" /\ pos' = pos
       ELSE prodPc' = prodPc /\ pos' = Advance(pos)
    /\ UNCHANGED <<tileVars, otherVars, regionVars, encPc, result, countRes, dirCreated, cmdStarted,
                   sparse, consPc, xml>>

\* sqlitePipe: one iteration of the loop over sparse.Next
ProducerNext ==
    /\ prodPc = "next"
    /\ LET r == SparsePointServerNext(sparse)
       IN /\ sparse' = r.s
          /\ IF r.err # "nil"
             THEN /\ prodPc' = "end"
                  /\ UNCHANGED <<rows, lastGet, lastRow, lastTile, stream, pipe>>
             ELSE /\ CanWrite
                  /\ prodPc' = prodPc
                  /\ rows' = rows + 1
                  /\ lastGet' = [x |-> r.x, y |-> r.y, z |-> r.z]
                  /\ lastTile' = r.t
                  /\ lastRow' = insertTile(r.z, r.x, r.y, TL(r.z).X, TL(r.z).Y)
                  /\ stream' = Append(stream, "row")
                  /\ pipe' = Written
    /\ UNCHANGED <<tileVars, otherVars, regionVars, encPc, result, countRes, dirCreated, cmdStarted,
                   pos, gets, lastZi, consPc, xml>>

\* sqlitePipe: wc.Write(sqlEnd) and the deferred wc.Close
ProducerEnd ==
    /\ prodPc = "end"
    /\ CanWrite
    /\ stream' = stream \o sqlEnd
    /\ pipe' = Written
    /\ prodPc' = "closed"
    /\ UNCHANGED <<tileVars, otherVars, regionVars, encPc, result, countRes, dirCreated, cmdStarted,
                   pos, gets, rows, lastGet, lastRow, lastZi, lastTile, sparse, consPc, xml>>

NextOrux ==
    \/ EncodeCount
    \/ EncodeMkdir
    \/ EncodePipe
    \/ EncodeWait
    \/ EncodeXML
    \/ ConsumerRead
    \/ ConsumerExit
    \/ ConsumerAbort
    \/ ProducerBegin
    \/ ProducerGet
    \/ ProducerNext
    \/ ProducerEnd

SpecOrux == InitOrux /\ [][NextOrux]_vars

\* Encode, the goroutine running sqlitePipe and the sqlite3 process are
\* scheduled independently: as long as one of them can go on, one of them does.
\* Nothing obliges sqlite3 to fail.
EncodeStep == EncodeCount \/ EncodeMkdir \/ EncodePipe \/ EncodeWait \/ EncodeXML
ProducerStep == ProducerBegin \/ ProducerGet \/ ProducerNext \/ ProducerEnd
SpecOruxFair ==
    /\ InitOrux
    /\ [][NextOrux]_vars
    /\ WF_vars(EncodeStep \/ ProducerStep \/ ConsumerRead \/ ConsumerExit)

\* WriteXML called on its own, on any Map
InitXML ==
    /\ OtherIdle
    /\ TileIdle
    /\ TopLeft \in Corners
    /\ BottomRight \in Corners
    /\ ZoomLevels \in SeqsUpTo(ZoomChoices, MaxZoomLevels)
    /\ ts = "server" /\ points = <<>> /\ sparse = NoSparse /\ missing = "none"
    /\ pipeCap = 1
    /\ encPc = "idle"
    /\ result = "pending"
    /\ countRes = NoCount
    /\ dirCreated \in BOOLEAN
    /\ cmdStarted = FALSE
    /\ prodPc = "idle"
    /\ pos = NoPos
    /\ gets = 0
    /\ rows = 0
    /\ lastGet = NoRow
    /\ lastRow = NoRow
    /\ lastZi = 0
    /\ lastTile = NoTile
    /\ stream = <<>>
    /\ pipe = 0
    /\ consPc = "idle"
    /\ xml = NoXml

\* m.WriteXML(name); without the directory os.Create fails
WriteXMLCall ==
    /\ encPc = "idle"
    /\ result = "pending"
    /\ \E out \in XmlOutcomes : \E k \in ShortWrites(out) :
          /\ ~dirCreated => out = "nocreate"
          /\ xml' = WriteXML(out, k)
          /\ result' = xml'.err
    /\ UNCHANGED <<tileVars, otherVars, regionVars, prodVars, encPc, countRes, dirCreated, cmdStarted,
                   pipe, consPc>>

NextXML == WriteXMLCall

SpecXML == InitXML /\ [][NextXML]_vars

----------------------------------------------------------------------------
(* The sparse point server used on its own *)

MaxPoints == 3       \* longest point list tried

SparseZooms == {0, 1, 3, 25}
\* Two points of one tile of zoom 3, a point of another tile, a point that has a
\* tile address from zoom 3 on, and a point north of MaxLatitude
PointChoices ==
    {[wx |-> 300, wy |-> 500], [wx |-> 310, wy |-> 510], [wx |-> 1900, wy |-> 100],
     [wx |-> 0, wy |-> 2047], [wx |-> 5, wy |-> -1]}
SparseXInputs == {0, 1, 7}
SparseYInputs == {0, 1}

\* The state after NewSparsePointServer(z, pts) returned
InitSparse ==
    /\ OtherIdle
    /\ cfg = [cache |-> "nil", local |-> FALSE, http |-> FALSE, points |-> FALSE]
    /\ maxTiles = 0
    /\ m = EmptyMap
    /\ disk = EmptyDisk
    /\ black = SolidBlack
    /\ calls = <<>>
    /\ addOrder = <<>>
    /\ hist = [k \in Keys |-> NoHist]
    /\ \E z \in SparseZooms, pts \in SeqsUpTo(PointChoices, MaxPoints) :
          /\ points = pts
          /\ sparse = NewSparsePointServer(z, pts).s
          /\ ts = IF NewSparsePointServer(z, pts).err = "nil" THEN "sparse" ELSE "none"
          /\ ret = [NoRet EXCEPT !.op = "NewSparsePointServer", !.z = z,
                                  !.err = NewSparsePointServer(z, pts).err]
    /\ TopLeft = [wx |-> 0, wy |-> 0]
    /\ BottomRight = [wx |-> 0, wy |-> 0]
    /\ ZoomLevels = <<>>
    /\ missing = "none"
    /\ pipeCap = 1
    /\ encPc = "idle"
    /\ result = "pending"
    /\ countRes = NoCount
    /\ dirCreated = FALSE
    /\ cmdStarted = FALSE
    /\ prodPc = "idle"
    /\ pos = NoPos
    /\ gets = 0
    /\ rows = 0
    /\ lastGet = NoRow
    /\ lastRow = NoRow
    /\ lastZi = 0
    /\ lastTile = NoTile
    /\ stream = <<>>
    /\ pipe = 0
    /\ consPc = "idle"
    /\ xml = NoXml

\* What a call on the sparse point server leaves alone
sparseFrame ==
    <<cfg, maxTiles, m, disk, black, calls, addOrder, hist, otherVars, regionVars, prodPc, pos, gets,
      rows, lastGet, lastRow, lastZi, lastTile, stream, encPc, result, countRes,
      dirCreated, cmdStarted, pipe, consPc, xml>>

\* s.Next()
SparseNext ==
    /\ ts = "sparse"
    /\ sparse' = SparsePointServerNext(sparse).s
    /\ ret' = [NoRet EXCEPT !.op = "Next",
                             !.z = SparsePointServerNext(sparse).z,
                             !.x = SparsePointServerNext(sparse).x,
                             !.y = SparsePointServerNext(sparse).y,
                             !.err = SparsePointServerNext(sparse).err,
                             !.tile = SparsePointServerNext(sparse).t]
    /\ UNCHANGED sparseFrame

\* s.Get(z, x, y)
SparseGet(z, x, y) ==
    /\ ts = "sparse"
    /\ ret' = [NoRet EXCEPT !.op = "SparseGet", !.z = z, !.x = x, !.y = y,
                             !.err = SparsePointServerGet(sparse, z, x, y).err,
                             !.tile = SparsePointServerGet(sparse, z, x, y).t]
    /\ UNCHANGED <<sparse, sparseFrame>>

NextSparse ==
    \/ SparseNext
    \/ \E z \in SparseZooms, x \in SparseXInputs, y \in SparseYInputs : SparseGet(z, x, y)

SpecSparse == InitSparse /\ [][NextSparse]_vars

----------------------------------------------------------------------------
(* Claims about the sparse point server *)

\* The tile address of a point at the zoom of the server
TileOf(p) == <<LatLonXY(p, sparse.z).xy.X, LatLonXY(p, sparse.z).xy.Y>>
\* The positions in P of the points that are the first of their tile
FirstOfTile == {i \in 1 .. Len(points) : \A j \in 1 .. i - 1 : TileOf(points[j]) # TileOf(points[i])}
\* The n-th tile of P in the order of first occurrence
NthTile(n) ==
    TileOf(points[CHOOSE i \in FirstOfTile : Cardinality({j \in FirstOfTile : j <= i}) = n])
\* The pixel offsets of the points of P that fall into tile <<x, y>>
PixelsIn(x, y) ==
    {<<LatLonXY(points[i], sparse.z).xy.XP, LatLonXY(points[i], sparse.z).xy.YP>> :
        i \in {j \in 1 .. Len(points) : TileOf(points[j]) = <<x, y>>}}
IsNext(r) == r.op = "Next"
Exhausted(r) == r.err = "EOF"

\* C18: the n-th call of Next returns the address of the n-th tile of P in the
\* order of first occurrence, at the zoom of the server; when every such tile
\* has been returned, Next returns Exhausted, and it goes on doing so.
EnumerationState ==
    IsNext(ret) =>
        IF Exhausted(ret)
        THEN sparse.p = Cardinality(FirstOfTile)
        ELSE /\ ret.err = "nil"
             /\ sparse.p \in 1 .. Cardinality(FirstOfTile)
             /\ <<ret.z, ret.x, ret.y>> = <<sparse.z>> \o NthTile(sparse.p)
EnumerationStep ==
    (IsNext(ret') /\ sparse.p = Cardinality(FirstOfTile)) => Exhausted(ret')
EnumerationOrder == []EnumerationState /\ [][EnumerationStep]_vars

\* C19: a Next call before exhaustion returns a nil error and a tile whose set
\* pixels are the pixel offsets of the points of P in the tile whose address the
\* call returns.
EnumeratedTiles ==
    (IsNext(ret) /\ ~Exhausted(ret)) =>
        /\ ret.err = "nil"
        /\ ret.tile # NoTile
        /\ ret.tile.marks = PixelsIn(ret.x, ret.y)

----------------------------------------------------------------------------
(* Claims about the export pipeline *)

\* A zoom level at which the region is malformed or a corner has no tile address
InvalidLevel(z) ==
    \/ LatLonXY(TopLeft, z).err # "nil"
    \/ LatLonXY(BottomRight, z).err # "nil"
    \/ BR(z).X < TL(z).X
    \/ BR(z).Y < TL(z).Y
RegionValid == \A i \in 1 .. Len(ZoomLevels) : ~InvalidLevel(ZoomLevels[i])

\* The number of tiles inside the map
RECURSIVE TilesFrom(_)
TilesFrom(i) ==
    IF i > Len(ZoomLevels) THEN 0
    ELSE (BR(ZoomLevels[i]).X - TL(ZoomLevels[i]).X + 1)
           * (BR(ZoomLevels[i]).Y - TL(ZoomLevels[i]).Y + 1) + TilesFrom(i + 1)
RegionTiles == TilesFrom(1)

\* The tiles the calibration index reports: width * height of every layer
RECURSIVE XmlTilesFrom(_)
XmlTilesFrom(i) ==
    IF i > Len(ZoomLevels) THEN 0
    ELSE expandTileCorners(ZoomLevels[i]).nx * expandTileCorners(ZoomLevels[i]).ny
           + XmlTilesFrom(i + 1)

NothingStarted == ~dirCreated /\ ~cmdStarted /\ prodPc = "idle" /\ gets = 0 /\ rows = 0

\* C6: whenever the region holds more tiles than tileLimit, Encode returns the
\* too-large error and creates no directory, starts no subprocess and requests no
\* tile.
OversizeRejected ==
    (encPc # "idle" /\ RegionValid /\ RegionTiles > tileLimit) =>
        /\ NothingStarted
        /\ encPc = "done" => result = "too large"

\* C7: Count returns the number of tiles inside the map, which is the number of
\* coordinates sqlitePipe requests from a plain tile source and the sum of
\* width * height over the layers of the calibration index.
CountIsTileCount ==
    (encPc \notin {"idle", "start"} /\ countRes.err = "nil") =>
        /\ countRes.n = RegionTiles
        /\ countRes.n = XmlTilesFrom(1)
        /\ (ts = "server" /\ prodPc = "closed") => gets = countRes.n

\* C8: an export that passed the size guard makes at most tileLimit Get calls.
GetsWithinLimit == gets <= tileLimit

\* C9: if at some configured zoom level the bottom-right tile index is smaller
\* than the top-left one on either axis, or a corner has no tile address, Encode
\* returns the error of Count and nothing was created, started or requested.
MalformedRejected ==
    (encPc # "idle" /\ ~RegionValid) =>
        /\ NothingStarted
        /\ encPc \in {"start", "done"}
        /\ encPc = "done" =>
              /\ countRes.err # "nil"
              /\ result = countRes.err
              /\ \E i \in 1 .. Len(ZoomLevels) : result = LevelErr(ZoomLevels[i])
MalformedRejectedWitness ==
    /\ encPc = "done"
    /\ result = "wrong definition"
    /\ Len(ZoomLevels) = 2
    /\ ~InvalidLevel(ZoomLevels[1])
    /\ BR(ZoomLevels[2]).Y < TL(ZoomLevels[2]).Y
    /\ BR(ZoomLevels[2]).X >= TL(ZoomLevels[2]).X

\* C10: every INSERT is keyed by the coordinate of its tile relative to the
\* top-left tile of the region at that zoom, so x is in [0, brX - tlX] and y in
\* [0, brY - tlY]; a region of 2x2 tiles at one zoom level yields at most four
\* rows, with x and y in {0, 1}.
TwoByTwo ==
    /\ Len(ZoomLevels) = 1
    /\ ~InvalidLevel(ZoomLevels[1])
    /\ BR(ZoomLevels[1]).X - TL(ZoomLevels[1]).X = 1
    /\ BR(ZoomLevels[1]).Y - TL(ZoomLevels[1]).Y = 1
RelativeRows ==
    /\ lastRow # NoRow =>
          /\ lastRow.z = lastGet.z
          /\ lastRow.x = lastGet.x - TL(lastGet.z).X
          /\ lastRow.y = lastGet.y - TL(lastGet.z).Y
          /\ lastRow.x \in 0 .. (BR(lastGet.z).X - TL(lastGet.z).X)
          /\ lastRow.y \in 0 .. (BR(lastGet.z).Y - TL(lastGet.z).Y)
    /\ (TwoByTwo /\ ts = "server") =>
          /\ rows <= 4
          /\ lastRow # NoRow => lastRow.x \in {0, 1} /\ lastRow.y \in {0, 1}
RelativeRowsWitness ==
    /\ TwoByTwo /\ ts = "server"
    /\ prodPc = "closed"
    /\ rows = 4
    /\ lastRow = [x |-> 1, y |-> 1, z |-> ZoomLevels[1]]
    /\ lastGet.x > 1 /\ lastGet.y > 1

\* The coordinates of the rectangle of one zoom level that the tile source has
PresentAt(z) ==
    {c \in (TL(z).X .. BR(z).X) \X (TL(z).Y .. BR(z).Y) : TsGet(z, c[1], c[2]) # NoTile}
RECURSIVE PresentFrom(_)
PresentFrom(i) ==
    IF i > Len(ZoomLevels) THEN 0
    ELSE Cardinality(PresentAt(ZoomLevels[i])) + PresentFrom(i + 1)

IsProducerGet == gets' = gets + 1

\* C11: with a plain tile source, a Get that returns no tile writes no row and
\* the producer goes on with the next coordinate; a Get that returns a tile
\* writes exactly one row, keyed by that coordinate.  When the producer is done
\* it has requested every coordinate of the rectangles, written one row per
\* coordinate that did not miss, and ended the stream with the index creation
\* and the commit.
MissesSkippedStep ==
    IsProducerGet =>
        /\ prodPc' \in {"loop", "end"}
        /\ prodPc' = "end" <=> Advance(pos) = Done
        /\ lastTile' = TsGet(lastGet'.z, lastGet'.x, lastGet'.y)
        /\ IF lastTile' = NoTile
           THEN rows' = rows /\ stream' = stream /\ lastRow' = NoRow
           ELSE /\ rows' = rows + 1
                /\ stream' = Append(stream, "row")
                /\ lastRow' = [x |-> lastGet'.x - TL(lastGet'.z).X,
                               y |-> lastGet'.y - TL(lastGet'.z).Y, z |-> lastGet'.z]
MissesSkippedEnd ==
    (ts = "server" /\ prodPc = "closed") =>
        /\ gets = RegionTiles
        /\ rows = PresentFrom(1)
        /\ Len(stream) = Len(sqlStart) + rows + Len(sqlEnd)
        /\ SubSeq(stream, Len(stream) - 1, Len(stream)) = <<"index", "commit">>
MissesSkipped == []MissesSkippedEnd /\ [][MissesSkippedStep]_vars
MissesSkippedWitness ==
    /\ ts = "server" /\ missing = "all"
    /\ encPc = "done" /\ result = "nil"
    /\ gets > 1 /\ rows = 0
    /\ stream = sqlStart \o sqlEnd

\* C12: a plain tile source is asked for the tiles zoom level by zoom level in
\* the order of ZoomLevels, a level being finished before the next is begun,
\* and within a level column by column (x), each column from top to bottom (y).
\* The row of a tile is written before the next tile is requested, so the rows
\* are in the stream in the order of the requests.
OrderStep ==
    IsProducerGet =>
        LET z1 == ZoomLevels[lastZi']
        IN /\ lastZi' \in 1 .. Len(ZoomLevels)
           /\ lastGet'.z = z1
           /\ IF gets = 0
              THEN lastZi' = 1 /\ lastGet'.x = TL(z1).X /\ lastGet'.y = TL(z1).Y
              ELSE LET z0 == ZoomLevels[lastZi]
                   IN \/ /\ lastZi' = lastZi
                         /\ lastGet'.x = lastGet.x
                         /\ lastGet'.y = lastGet.y + 1
                         /\ lastGet'.y <= BR(z0).Y
                      \/ /\ lastZi' = lastZi
                         /\ lastGet.y = BR(z0).Y
                         /\ lastGet'.x = lastGet.x + 1
                         /\ lastGet'.x <= BR(z0).X
                         /\ lastGet'.y = TL(z0).Y
                      \/ /\ lastZi' = lastZi + 1
                         /\ lastGet.x = BR(z0).X /\ lastGet.y = BR(z0).Y
                         /\ lastGet'.x = TL(z1).X /\ lastGet'.y = TL(z1).Y
           /\ stream' # stream =>
                 /\ stream' = Append(stream, "row")
                 /\ lastRow' = insertTile(z1, lastGet'.x, lastGet'.y, TL(z1).X, TL(z1).Y)
RequestOrder == [][OrderStep]_vars
RequestOrderWitness ==
    /\ ts = "server" /\ prodPc = "closed"
    /\ Len(ZoomLevels) = 2 /\ ZoomLevels[1] > ZoomLevels[2]
    /\ lastZi = 2
    /\ gets >= 5
    /\ BR(ZoomLevels[1]).X > TL(ZoomLevels[1]).X /\ BR(ZoomLevels[1]).Y > TL(ZoomLevels[1]).Y

\* C13: what the producer has written is at any time a prefix of: the pragma,
\* BEGIN TRANSACTION and CREATE TABLE, then one INSERT per row, then one CREATE
\* INDEX, then one COMMIT.  The stream is closed only after the COMMIT, nothing
\* is written after it, and the producer cannot stop before it has closed the
\* stream: until then it has a step to take or waits for room in the pipe.
RowStatements(n) == [i \in 1 .. n |-> "row"]
StreamShape ==
    /\ prodPc \in {"idle", "begin"} => stream = <<>>
    /\ prodPc \in {"loop", "next", "end"} =>
          stream = <<"pragma", "begin", "create">> \o RowStatements(rows)
    /\ prodPc = "closed" =>
          stream = <<"pragma", "begin", "create">> \o RowStatements(rows)
                     \o <<"index", "commit">>
    /\ prodPc \in {"begin", "loop", "next", "end"} =>
          \/ ENABLED ProducerStep
          \/ consPc = "running" /\ pipe = pipeCap /\ ENABLED ConsumerRead
StreamShapeWitness ==
    /\ prodPc = "closed"
    /\ rows >= 2
    /\ consPc = "ok"
    /\ stream[Len(stream)] = "commit"

\* C14: while sqlite3 runs, a producer that waits for room in the full pipe
\* always faces a consumer that can read, for every capacity of the pipe; and
\* every call of Encode returns.
ProducerBlocked ==
    /\ prodPc \in {"begin", "loop", "next", "end"}
    /\ consPc = "running"
    /\ pipe = pipeCap
    /\ ~ENABLED ProducerStep
NoPipeDeadlock ==
    /\ [](ProducerBlocked => ENABLED ConsumerRead)
    /\ <>(encPc = "done")
NoPipeDeadlockWitness ==
    /\ ProducerBlocked
    /\ pipeCap = MaxPipe
    /\ rows >= 2
    /\ encPc = "wait"

\* C15: when WriteXML is called, and from then on, sqlite3 has exited, the
\* producer has written the COMMIT and closed the stream, nothing is left in
\* the pipe, and no tile is requested and no statement written any more.
XmlStarted == encPc = "xml" \/ xml # NoXml
XmlAfterStreamState ==
    XmlStarted =>
        /\ consPc = "ok"
        /\ prodPc = "closed"
        /\ pipe = 0
        /\ Len(stream) >= 2
        /\ stream[Len(stream)] = "commit"
XmlAfterStreamStep ==
    XmlStarted => gets' = gets /\ rows' = rows /\ stream' = stream /\ prodPc' = prodPc
XmlAfterStream == []XmlAfterStreamState /\ [][XmlAfterStreamStep]_vars
XmlAfterStreamWitness ==
    /\ xml.created /\ xml.err = "nil"
    /\ Len(xml.layers) = 2
    /\ gets >= 2 /\ rows >= 1

\* C16: Encode returns nil only if os.Mkdir, sqlite3 and WriteXML succeeded.
\* An export that passed the size guard and could not create its directory
\* returns that error; a failure of sqlite3 is returned as the error of Encode
\* and no calibration document is created then; an error of WriteXML is the
\* error of Encode.
PassedGuard == encPc \notin {"idle", "start"} /\ countRes.err = "nil" /\ countRes.n <= tileLimit
EncodeResult ==
    /\ consPc = "failed" => xml = NoXml /\ encPc \in {"wait", "done"}
    /\ encPc = "done" =>
          /\ result # "pending"
          /\ result = "nil" =>
                /\ dirCreated
                /\ consPc = "ok"
                /\ xml.created /\ xml.err = "nil"
                /\ Len(xml.layers) = Len(ZoomLevels)
          /\ (PassedGuard /\ ~dirCreated) => result = "mkdir"
          /\ consPc = "failed" => result = "sqlite3"
          /\ xml.err # "nil" => result = xml.err
EncodeResultWitness ==
    /\ encPc = "done"
    /\ consPc = "failed" /\ result = "sqlite3"
    /\ prodPc = "closed" /\ rows >= 2
    /\ xml = NoXml

\* C17: a WriteXML that returns nil has written one record per entry of
\* ZoomLevels, in the order of the list; the record of zoom z gives brX - tlX + 1
\* and brY - tlY + 1 tiles and has as corners the point of pixel (0,0) of the
\* top-left tile and the point of pixel (255,255) of the bottom-right tile.  If
\* a corner has no tile address at some zoom level, WriteXML returns that error
\* and writes no record.
PixelPoint(X, Y, XP, YP, z) ==
    [lon |-> ((X * 256 + XP) * WorldSize) \div (256 * Pow2(z)),
     lat |-> ((Y * 256 + YP) * WorldSize) \div (256 * Pow2(z))]
CornerFails(z) == LatLonXY(TopLeft, z).err # "nil" \/ LatLonXY(BottomRight, z).err # "nil"
CalibrationRecords ==
    xml # NoXml =>
        IF \E i \in 1 .. Len(ZoomLevels) : CornerFails(ZoomLevels[i])
        THEN /\ xml.layers = <<>>
             /\ xml.err # "nil"
             /\ result = xml.err
             /\ xml.created =>
                   \E i \in 1 .. Len(ZoomLevels) :
                       xml.err \in {LatLonXY(TopLeft, ZoomLevels[i]).err,
                                    LatLonXY(BottomRight, ZoomLevels[i]).err}
        ELSE xml.err = "nil" =>
               /\ Len(xml.layers) = Len(ZoomLevels)
               /\ \A i \in 1 .. Len(ZoomLevels) :
                     LET z == ZoomLevels[i]
                         l == xml.layers[i]
                         tl == PixelPoint(TL(z).X, TL(z).Y, 0, 0, z)
                         br == PixelPoint(BR(z).X, BR(z).Y, 255, 255, z)
                     IN /\ l.layerLevel = z
                        /\ l.xMax = BR(z).X - TL(z).X + 1
                        /\ l.yMax = BR(z).Y - TL(z).Y + 1
                        /\ l.TL = tl
                        /\ l.BR = br
                        /\ l.TR = [lon |-> br.lon, lat |-> tl.lat]
                        /\ l.BL = [lon |-> tl.lon, lat |-> br.lat]
CalibrationRecordsWitness ==
    /\ encPc = "idle"
    /\ xml.created /\ xml.err = "nil"
    /\ Len(xml.layers) = 2
    /\ ZoomLevels[1] > ZoomLevels[2]
    /\ xml.layers[1].xMax = 2 /\ xml.layers[1].yMax = 2
    /\ xml.layers[1].TL.lon > 0

\* C20: with a sparse tile source the producer calls Next until it is exhausted
\* and never Get; when it is done it has written one row for every tile that
\* holds a point, each keyed relative to the top-left tile of the region at the
\* zoom of the enumerator.
SparseDrained ==
    ts = "sparse" =>
        /\ gets = 0
        /\ prodPc \in {"end", "closed"} =>
              /\ sparse.p = Len(sparse.keys)
              /\ rows = Cardinality(FirstOfTile)
        /\ lastRow # NoRow =>
              /\ <<lastGet.x, lastGet.y>> \in {TileOf(points[i]) : i \in 1 .. Len(points)}
              /\ lastRow = [x |-> lastGet.x - TL(sparse.z).X,
                            y |-> lastGet.y - TL(sparse.z).Y, z |-> sparse.z]

----------------------------------------------------------------------------
(* The projection functions called on their own *)

ProjZooms == {-1, 0, 1, 3, 24, 25}
\* a pixel of zoom z is GridScale / 2^z world units wide
GridScale == WorldSize \div 256
ProjIndices == {-17, -8, -1, 0, 5, 8, 16777215, 16777216}
ProjRows == {-1, 0, 3, 9}
\* longitudes -180 .. 180 and latitudes from above MaxLatitude to below MinLatitude(0)
ProjLons == {0, 1, 255, 1024, WorldSize - 1, WorldSize}
ProjLats == {-1, 0, 700, WorldSize - 9, WorldSize - 8, WorldSize - 7, WorldSize - 1}

InitProj ==
    /\ TileIdle
    /\ OruxIdle
    /\ args \in [z : ProjZooms, x : ProjIndices, y : ProjRows,
                 p : [wx : ProjLons, wy : ProjLats]]
    /\ res = NoRes
    /\ uim = NoTile
    /\ lock = 0
    /\ procs = NoProcs
    /\ stored = {}
    /\ viewer = NoViewer

projFrame == <<tileVars, oruxVars, args, uim, lock, procs, stored, viewer>>

\* normalizeTile(z, x, y) called directly: checkZoom panics before the wrapping
CallNormalizeTile ==
    /\ res' = IF checkZoom(args.z)
              THEN [NoRes EXCEPT !.op = "normalizeTile", !.panic = TRUE]
              ELSE [NoRes EXCEPT !.op = "normalizeTile",
                                 !.x = normalizeTile(args.z, args.x, args.y)[1],
                                 !.y = normalizeTile(args.z, args.x, args.y)[2]]
    /\ UNCHANGED projFrame

CallNumTiles ==
    /\ res' = [NoRes EXCEPT !.op = "NumTiles", !.n = NumTiles(args.z)]
    /\ UNCHANGED projFrame

\* args.p.XY(args.z), at the zooms whose pixels the grid resolves
CallXY ==
    /\ IF ZoomOk(args.z) THEN Pow2(args.z) <= GridScale ELSE TRUE
    /\ res' = The({[NoRes EXCEPT !.op = "XY", !.panic = r.panic, !.err = r.err,
                                 !.xy = r.xy] : r \in {LatLonXY(args.p, args.z)}})
    /\ UNCHANGED projFrame

\* xy.LatLon() of the address the last XY returned, as TestLatLon_XY does
CallLatLon ==
    /\ res.op = "XY"
    /\ ~res.panic
    /\ res.err = "nil"
    /\ res' = [res EXCEPT !.op = "LatLon", !.p = XYLatLon(res.xy)]
    /\ UNCHANGED projFrame

NextProj ==
    \/ CallNormalizeTile
    \/ CallNumTiles
    \/ CallXY
    \/ CallLatLon

SpecProj == InitProj /\ [][NextProj]_vars

\* C21: for a zoom in [0,24] and any x, y, negative ones included, normalizeTile
\* returns indices in [0, 2^z) that are congruent to x and y modulo 2^z; -1 wraps
\* to 2^z - 1, and normalizing the result again returns it unchanged.
WrapsIntoGrid ==
    (res.op = "normalizeTile" /\ ZoomOk(args.z)) =>
        /\ ~res.panic
        /\ res.x \in 0..(Pow2(args.z) - 1)
        /\ res.y \in 0..(Pow2(args.z) - 1)
        /\ (res.x - args.x) % Pow2(args.z) = 0
        /\ (res.y - args.y) % Pow2(args.z) = 0
        /\ (args.x = -1 => <<res.x, res.y>> = normalizeTile(args.z, Pow2(args.z) - 1, args.y))
        /\ normalizeTile(args.z, res.x, res.y) = <<res.x, res.y>>

WrapsIntoGridWitness ==
    /\ res.op = "normalizeTile"
    /\ args.z = 24
    /\ args.x = -1
    /\ args.y = -1
    /\ res.x = 16777215
    /\ res.y = 16777215

\* C22: LatLon.XY returns ZoomRangeError for a zoom outside [0,24], without a
\* panic although MinLatitude would panic on that zoom; it returns a latitude
\* error for a latitude below MinLatitude(zoom) or above MaxLatitude; in both
\* cases the address is the zero value; it succeeds for every other input.
XYValidation ==
    res.op = "XY" =>
        /\ ~res.panic
        /\ res.err = (IF ~(args.z \in 0..24) THEN "ZoomRangeError"
                      ELSE IF args.p.wy > MinLatitude(args.z) \/ args.p.wy < MaxLatitude
                      THEN "latitude"
                      ELSE "nil")
        /\ (res.err # "nil" => res.xy = NoXY)

XYValidationWitness ==
    /\ res.op = "XY"
    /\ args.z = 25
    /\ args.p.wy > WorldSize - 8
    /\ res.err = "ZoomRangeError"

\* C23: every address LatLon.XY returns without error has tile indices in
\* [0, 2^z) and pixel offsets in [0, 255].
AddressInGrid ==
    (res.op = "XY" /\ ~res.panic /\ res.err = "nil") =>
        /\ res.xy.X \in 0..(Pow2(res.xy.Z) - 1)
        /\ res.xy.Y \in 0..(Pow2(res.xy.Z) - 1)
        /\ res.xy.XP \in 0..255
        /\ res.xy.YP \in 0..255

GridSize ==
    res.op = "NumTiles" =>
        /\ ~res.panic
        /\ res.err = "nil"
        /\ res.n = (IF args.z \in 0..24 THEN Pow2(args.z) ELSE 0)

GridSizeWitness ==
    /\ res.op = "NumTiles"
    /\ args.z = 25
    /\ res.n = 0

----------------------------------------------------------------------------
(* Concurrent callers: the goroutines that paint.Event starts, one per tile, *)
(* each calling Get of the shared CombinedServer, and callers of the cache   *)

NumCallers == 2
Callers == 1 .. NumCallers

\* A caller: where it is, which call it is in ("cache": a call of CacheServer,
\* "combined": CombinedServer.get), its coordinate, the tile it holds, the result
\* of the capacity test and what the cache lookup found.  Its locals are gone
\* when the call returns.
IdleCaller == [pc |-> "idle", ctx |-> "none", k |-> <<0, 0, 0>>, t |-> NoTile,
               pass |-> FALSE, out |-> "none"]

InitConc ==
    /\ cfg \in [cache : {"unset", "on"}, local : BOOLEAN, http : BOOLEAN, points : {FALSE}]
    /\ maxTiles \in Capacities
    /\ cfg.cache # "on" => maxTiles = 0
    /\ m = EmptyMap
    /\ disk = [k \in Keys |-> IF k[2] = 0 /\ cfg.local THEN pngEncode(NewTile("disk"))
                              ELSE NoFile]
    /\ black = SolidBlack
    /\ ret = NoRet
    /\ calls = <<>>
    /\ addOrder = <<>>
    /\ hist = [k \in Keys |-> NoHist]
    /\ OruxIdle
    /\ args = NoArgs
    /\ res = NoRes
    /\ uim = NoTile
    /\ lock = 0
    /\ procs = [p \in Callers |-> IdleCaller]
    /\ stored = {}
    /\ viewer = NoViewer

concFrame == <<cfg, maxTiles, black, ret, calls, addOrder, hist, oruxVars, args, res, uim, viewer>>

\* Where CombinedServer.get goes after a layer missed, and its return
AfterCacheMiss == IF cfg.local THEN "local.read" ELSE IF cfg.http THEN "http.fetch" ELSE "idle"
AfterLocalMiss == IF cfg.http THEN "http.fetch" ELSE "idle"
AfterLocalHit == IF CacheEnabled THEN "add.lock" ELSE "idle"
AfterFetch == IF cfg.local THEN "local.write" ELSE IF CacheEnabled THEN "add.lock" ELSE "idle"

\* c.Get(z, x, y) of the CacheServer: normalizeTile, then c.Lock()
CallCacheGet(p, k) ==
    /\ procs[p].pc = "idle"
    /\ procs' = [procs EXCEPT ![p] = [IdleCaller EXCEPT !.pc = "get.lock", !.ctx = "cache",
                                                        !.k = k]]
    /\ UNCHANGED <<m, disk, lock, stored, concFrame>>

\* c.Add(z, x, y, t) of the CacheServer: it returns at once when c.m == nil
CallCacheAdd(p, k, t) ==
    /\ procs[p].pc = "idle"
    /\ procs' = [procs EXCEPT ![p] =
                    IF cfg.cache = "on"
                    THEN [IdleCaller EXCEPT !.pc = "add.lock", !.ctx = "cache", !.k = k,
                                            !.t = t]
                    ELSE IdleCaller]
    /\ UNCHANGED <<m, disk, lock, stored, concFrame>>

\* CombinedServer.get up to its first layer
CallCombinedGet(p, k) ==
    /\ procs[p].pc = "idle"
    /\ procs' = [procs EXCEPT ![p] =
                    IF ~CacheEnabled /\ AfterCacheMiss = "idle" THEN IdleCaller
                    ELSE [IdleCaller EXCEPT !.pc = IF CacheEnabled THEN "get.lock"
                                                   ELSE AfterCacheMiss,
                                            !.ctx = "combined", !.k = k]]
    /\ UNCHANGED <<m, disk, lock, stored, concFrame>>

CanLockAlways(holder) == TRUE

\* sync.Mutex.Lock returns when nobody holds the mutex
CanLock(holder) == holder = 0

\* c.Lock()
Lock(p) ==
    /\ procs[p].pc \in {"get.lock", "add.lock"}
    /\ CanLock(lock)
    /\ lock' = p
    /\ procs' = [procs EXCEPT ![p].pc = IF @ = "get.lock" THEN "get.read" ELSE "add.check"]
    /\ UNCHANGED <<m, disk, stored, concFrame>>

\* t, ok := c.m[k]
Lookup(p) ==
    /\ procs[p].pc = "get.read"
    /\ procs' = [procs EXCEPT ![p].pc = "get.unlock",
                              ![p].t = IF procs[p].k \in DOMAIN m THEN m[procs[p].k] ELSE NoTile,
                              ![p].out = IF procs[p].k \in DOMAIN m THEN "tile" ELSE "notfound"]
    /\ UNCHANGED <<m, disk, lock, stored, concFrame>>

\* c.maxTiles == 0 || len(c.m) < c.maxTiles
Check(p) ==
    /\ procs[p].pc = "add.check"
    /\ procs' = [procs EXCEPT ![p].pass = (maxTiles = 0 \/ Cardinality(DOMAIN m) < maxTiles),
                              ![p].pc = IF maxTiles = 0 \/ Cardinality(DOMAIN m) < maxTiles
                                        THEN "add.insert" ELSE "add.unlock"]
    /\ UNCHANGED <<m, disk, lock, stored, concFrame>>

\* c.m[k] = t
Insert(p) ==
    /\ procs[p].pc = "add.insert"
    /\ m' = [kk \in DOMAIN m \cup {procs[p].k} |->
                IF kk = procs[p].k THEN procs[p].t ELSE m[kk]]
    /\ stored' = stored \cup {<<procs[p].k, procs[p].t>>}
    /\ procs' = [procs EXCEPT ![p].pc = "add.unlock"]
    /\ UNCHANGED <<disk, lock, concFrame>>

\* A caller that moves on to pc, or returns
Continue(c, pc) == IF pc = "idle" THEN IdleCaller ELSE [c EXCEPT !.pc = pc, !.out = "none"]

\* What follows the Unlock of caller c
AfterUnlock(c) ==
    IF c.pc = "get.unlock" /\ c.ctx = "combined" /\ c.out = "notfound"
    THEN Continue(c, AfterCacheMiss)
    ELSE IdleCaller

UnlockKeptOnMiss(p) ==
    /\ procs[p].pc \in {"get.unlock", "add.unlock"}
    /\ lock' = IF AfterUnlock(procs[p]).pc = "idle" THEN 0 ELSE lock
    /\ procs' = [procs EXCEPT ![p] = AfterUnlock(procs[p])]
    /\ UNCHANGED <<m, disk, stored, concFrame>>

\* c.Unlock(), deferred in Get, and the return to the caller
Unlock(p) ==
    /\ procs[p].pc \in {"get.unlock", "add.unlock"}
    /\ lock' = 0
    /\ procs' = [procs EXCEPT ![p] = AfterUnlock(procs[p])]
    /\ UNCHANGED <<m, disk, stored, concFrame>>

\* c.Local.Get returns
LocalRead(p) ==
    /\ procs[p].pc = "local.read"
    /\ LET r == LocalServerGet(disk, procs[p].k[1], procs[p].k[2], procs[p].k[3])
       IN procs' = [procs EXCEPT ![p] =
                       IF r.err = "nil"
                       THEN Continue([procs[p] EXCEPT !.t = r.t], AfterLocalHit)
                       ELSE Continue(procs[p], AfterLocalMiss)]
    /\ UNCHANGED <<m, disk, lock, stored, concFrame>>

\* c.Http.Get returns
HttpFetch(p, out) ==
    /\ procs[p].pc = "http.fetch"
    /\ LET r == HttpServerGet(procs[p].k[1], procs[p].k[2], procs[p].k[3], out)
       IN procs' = [procs EXCEPT ![p] =
                       IF r.err = "nil"
                       THEN Continue([procs[p] EXCEPT !.t = r.t], AfterFetch)
                       ELSE IdleCaller]
    /\ UNCHANGED <<m, disk, lock, stored, concFrame>>

\* c.Local.Add returns; its error is ignored
LocalWrite(p, out) ==
    /\ procs[p].pc = "local.write"
    /\ disk' = LocalServerAdd(disk, procs[p].k[1], procs[p].k[2], procs[p].k[3],
                              procs[p].t, out)
    /\ procs' = [procs EXCEPT ![p] = Continue(procs[p], AfterLocalHit)]
    /\ UNCHANGED <<m, lock, stored, concFrame>>

NextConc ==
    \/ \E p \in Callers, k \in Keys : CallCacheGet(p, k)
    \/ \E p \in Callers, k \in Keys : CallCacheAdd(p, k, NewTile("t1"))
    \/ \E p \in Callers, k \in Keys : CallCombinedGet(p, k)
    \/ \E p \in Callers : Lock(p)
    \/ \E p \in Callers : Lookup(p)
    \/ \E p \in Callers : Check(p)
    \/ \E p \in Callers : Insert(p)
    \/ \E p \in Callers : Unlock(p)
    \/ \E p \in Callers : LocalRead(p)
    \/ \E p \in Callers, out \in {"ok", "status"} : HttpFetch(p, out)
    \/ \E p \in Callers, out \in {"ok", "fail"} : LocalWrite(p, out)

SpecConc == InitConc /\ [][NextConc]_vars

CriticalPcs == {"get.read", "get.unlock", "add.check", "add.insert", "add.unlock"}
UpstreamPcs == {"local.read", "local.write", "http.fetch"}
InCritical == {p \in Callers : procs[p].pc \in CriticalPcs}

\* C27: under any interleaving of Get and Add calls of several callers the map
\* lookup and the capacity test with its insert are mutually exclusive critical
\* sections, the cache never holds more than K > 0 entries, and a Get returns
\* NotFound or a tile that an Add stored under the same coordinate.
CacheLinearizable ==
    /\ Cardinality(InCritical) <= 1
    /\ \A p \in InCritical : lock = p
    /\ maxTiles > 0 => Cardinality(DOMAIN m) <= maxTiles
    /\ \A p \in Callers :
          procs[p].pc = "get.unlock" =>
              \/ procs[p].out = "notfound" /\ procs[p].t = NoTile
              \/ procs[p].out = "tile" /\ <<procs[p].k, procs[p].t>> \in stored

CacheLinearizableWitness ==
    /\ maxTiles = 1
    /\ Cardinality(DOMAIN m) = 1
    /\ procs[1].pc = "add.check"
    /\ procs[2].pc = "add.lock"
    /\ procs[1].k # procs[2].k

\* C28: the cache lock is held only during a cache lookup or a cache insert: no
\* caller holds it while its Local-Disk read, Local-Disk write or Remote fetch is
\* in progress, so such a caller never keeps another from the cache.
LockOnlyAroundMap ==
    /\ \A p \in Callers : procs[p].pc \in UpstreamPcs => lock # p
    /\ lock # 0 => procs[lock].pc \in CriticalPcs
    /\ \A p, q \in Callers :
          (procs[p].pc \in UpstreamPcs /\ procs[q].pc \in {"get.lock", "add.lock"}
            /\ InCritical = {}) => ENABLED Lock(q)

LockOnlyAroundMapWitness ==
    /\ procs[1].pc = "http.fetch"
    /\ procs[2].pc = "get.read"
    /\ lock = 2
    /\ procs[1].k = procs[2].k

----------------------------------------------------------------------------
(* Claims about the tile sources called on their own *)

SourceOps == {"CacheAdd", "CacheGet", "LocalAdd", "LocalGet", "HttpGet", "UniformGet",
              "CombinedGet"}

\* C26: Get and Add of the Cache, Local-Disk, Remote, Uniform and Combined sources
\* panic on a zoom outside [0,24] before a cache entry is read or written, a file
\* is opened or created or a request is sent: cache and disk are unchanged, and no
\* tile of a clamped zoom is returned.
ZoomFailFastStep ==
    (ret'.op \in SourceOps /\ ~(ret'.z \in 0..24)) =>
        /\ ret'.panic
        /\ ret'.tile = NoTile
        /\ ret'.src = "none"
        /\ calls' \in {<<>>, calls}       \* no layer is called
        /\ m' = m
        /\ disk' = disk
        /\ uim' = uim
        /\ black' = black
ZoomFailFast == [][ZoomFailFastStep]_vars

ZoomFailFastWitness ==
    /\ ret.op = "UniformGet"
    /\ ret.panic
    /\ ret.z = 25
    /\ uim = NoTile
    /\ m # EmptyMap
    /\ cfg.local

IsPng256(f) == f.base \notin {"nofile", "bad"} /\ f.dx = 256 /\ f.dy = 256
Raster(f) == [base |-> f.base, marks |-> f.marks]
RetKeyNext == Key(ret'.z, ret'.x, ret'.y)

\* C29: Local-Disk Get and Remote Get return a tile only when the payload decodes
\* to exactly 256x256 pixels; any other payload and any non-success status is an
\* error after a single attempt; inside Combined Get such an error falls through
\* to the next layer, and nothing is added to the cache or the disk for it.
DecodeLocalStep ==
    (ret'.op = "LocalGet" /\ ~ret'.panic) =>
        /\ (ret'.err = "nil") <=> IsPng256(disk[RetKeyNext])
        /\ ret'.tile = (IF ret'.err = "nil" THEN Raster(disk[RetKeyNext]) ELSE NoTile)
        /\ Len(calls') = 1
DecodeRemoteStep ==
    (ret'.op = "HttpGet" /\ ~ret'.panic) =>
        \A out \in HttpOutcomes :
            HttpGet(ret'.z, ret'.x, ret'.y, out) =>
                /\ (ret'.err = "nil") <=>
                        (out \notin {"neterr", "status"} /\ IsPng256(HttpBody(out)))
                /\ ret'.tile = (IF ret'.err = "nil" THEN Raster(HttpBody(out)) ELSE NoTile)
                /\ Len(calls') = 1
FallThroughStep ==
    IsCombinedGet(ret') =>
        LET g == GetCalls(calls')
            a == AddCalls(calls')
            k == RetKeyNext
        IN /\ \A i, j \in 1 .. Len(g) : g[i].layer = g[j].layer => i = j
           /\ \A i \in 1 .. Len(g) :
                 ~g[i].ok =>
                    IF \E l \in Layers : Configured(l) /\ Rank(l) > Rank(g[i].layer)
                    THEN /\ i < Len(g)
                         /\ Rank(g[i + 1].layer) > Rank(g[i].layer)
                    ELSE /\ i = Len(g)
                         /\ ret'.src = "black"
                         /\ a = <<>>
                         /\ m' = m
                         /\ disk' = disk
           /\ a # <<>> =>
                 /\ g[Len(g)].ok
                 /\ ret'.src = g[Len(g)].layer
                 /\ (k \in DOMAIN m' /\ k \notin DOMAIN m) => m'[k] = ret'.tile
                 /\ disk'[k] # disk[k] => disk'[k] \in {pngEncode(ret'.tile), BadFile}
DecodeOrFallThrough ==
    [][DecodeLocalStep /\ DecodeRemoteStep /\ FallThroughStep]_vars

DecodeOrFallThroughWitness ==
    /\ IsCombinedGet(ret)
    /\ ret.src = "black"
    /\ disk[RetKey] = SmallPng
    /\ m = EmptyMap
    /\ calls = <<Call("cache", "get", RetKey, FALSE), Call("local", "get", RetKey, FALSE),
                 Call("http", "get", RetKey, FALSE)>>

\* C30: after a successful Local-Disk Add(z,x,y,t) a Get(z,x,y) returns t whatever
\* the store held before; repeating the Add leaves the store unchanged; Add never
\* changes the entry of another coordinate; Add on an unset base path returns an
\* error and writes nothing.
LocalStoreStep ==
    /\ (ret'.op = "LocalAdd" /\ ~ret'.panic) =>
          /\ \A kk \in Keys \ {RetKeyNext} : disk'[kk] = disk[kk]
          /\ ~cfg.local => (ret'.err # "nil" /\ disk' = disk)
          /\ ret'.err = "nil" =>
                /\ LocalServerGet(disk', ret'.z, ret'.x, ret'.y) =
                       [t |-> ret'.tile, err |-> "nil"]
                /\ LocalServerAdd(disk', ret'.z, ret'.x, ret'.y, ret'.tile, "ok") = disk'
    /\ ( /\ ret.op = "LocalAdd" /\ ~ret.panic /\ ret.err = "nil"
         /\ ret'.op = "LocalGet" /\ ~ret'.panic
         /\ RetKeyNext = RetKey ) =>
          (ret'.err = "nil" /\ ret'.tile = ret.tile)
LocalStore == [][LocalStoreStep]_vars

LocalStoreWitness ==
    /\ ret.op = "LocalGet"
    /\ ret.err = "nil"
    /\ ret.tile = NewTile("ext")
    /\ RetKey = <<1, 1, 0>>
    /\ disk[<<1, 0, 0>>] = pngEncode(NewTile("disk"))

----------------------------------------------------------------------------
(* More claims about the bounded cache *)

\* C31: a cache entry is never removed: the set of cached coordinates only grows,
\* and a Get of a coordinate that was cached before the call returns a tile.
NeverEvictedStep ==
    /\ DOMAIN m \subseteq DOMAIN m'
    /\ (ret'.op = "CacheGet" /\ ~ret'.panic /\ RetKeyNext \in DOMAIN m) =>
          (ret'.err = "nil" /\ ret'.tile # NoTile)
NeverEvicted == [][NeverEvictedStep]_vars

NeverEvictedWitness ==
    /\ cfg.cache = "on"
    /\ maxTiles = 1
    /\ Len(addOrder) = 3
    /\ ret.op = "CacheGet" /\ ~ret.panic /\ ret.err = "nil"
    /\ RetKey = addOrder[1]

\* C32: a cache created with capacity 0 admits every Add: after Add(z,x,y,t) the
\* cache holds t under the coordinate and the next Get(z,x,y) returns t, whatever
\* the number of entries stored before.
UnlimitedStep ==
    (cfg.cache = "on" /\ maxTiles = 0) =>
        /\ (ret'.op = "CacheAdd" /\ ~ret'.panic) =>
              (RetKeyNext \in DOMAIN m' /\ m'[RetKeyNext] = ret'.tile)
        /\ ( /\ ret.op = "CacheAdd" /\ ~ret.panic
             /\ ret'.op = "CacheGet" /\ ~ret'.panic
             /\ RetKeyNext = RetKey ) =>
              (ret'.err = "nil" /\ ret'.tile = ret.tile)
Unlimited == [][UnlimitedStep]_vars

UnlimitedWitness ==
    /\ cfg.cache = "on"
    /\ maxTiles = 0
    /\ Cardinality(DOMAIN m) = 3
    /\ ret.op = "CacheGet" /\ ret.err = "nil"
    /\ ret.tile = NewTile("t2")
    /\ \E k \in DOMAIN m : m[k] = NewTile("t1")

\* C37: Add for a coordinate that is already cached replaces the stored tile when
\* the cache is below its capacity or unlimited, and leaves it unchanged when the
\* cache is at capacity; the number of entries does not change.
ReplaceStep ==
    (cfg.cache = "on" /\ ret'.op = "CacheAdd" /\ ~ret'.panic /\ RetKeyNext \in DOMAIN m) =>
        /\ DOMAIN m' = DOMAIN m
        /\ \A k \in DOMAIN m \ {RetKeyNext} : m'[k] = m[k]
        /\ m'[RetKeyNext] = (IF maxTiles = 0 \/ Cardinality(DOMAIN m) < maxTiles
                             THEN ret'.tile ELSE m[RetKeyNext])
Replace == [][ReplaceStep]_vars

ReplaceWitness ==
    /\ cfg.cache = "on"
    /\ maxTiles = 1
    /\ ret.op = "CacheAdd" /\ ~ret.panic
    /\ RetKey \in DOMAIN m
    /\ m[RetKey] # ret.tile

\* C38: a cache created with a negative capacity never admits a tile: every Get
\* returns NotFound after any Adds, and a Combined Get that uses it returns and
\* stores what it would with no cache configured.
NegativeCapacityStep ==
    (cfg.cache = "on" /\ maxTiles < 0) =>
        /\ m' = EmptyMap
        /\ (ret'.op = "CacheGet" /\ ~ret'.panic) =>
              (ret'.err # "nil" /\ ret'.tile = NoTile)
        /\ IsCombinedGet(ret') =>
              \E ho \in HttpOutcomes, ao \in AddOutcomes :
                 LET lg == LocalServerGet(disk, ret'.z, ret'.x, ret'.y)
                     hg == HttpServerGet(ret'.z, ret'.x, ret'.y, ho)
                 IN IF cfg.local /\ lg.err = "nil"
                    THEN ret'.src = "local" /\ ret'.tile = lg.t /\ disk' = disk
                    ELSE IF cfg.http /\ hg.err = "nil"
                    THEN /\ ret'.src = "http"
                         /\ ret'.tile = hg.t
                         /\ disk' = IF cfg.local
                                    THEN LocalServerAdd(disk, ret'.z, ret'.x, ret'.y, hg.t, ao)
                                    ELSE disk
                    ELSE ret'.src = "black" /\ ret'.tile = black /\ disk' = disk
NegativeCapacity == [][NegativeCapacityStep]_vars

NegativeCapacityWitness ==
    /\ cfg.cache = "on"
    /\ maxTiles = -1
    /\ IsCombinedGet(ret)
    /\ ret.src = "http"
    /\ InSeq(calls, Call("cache", "add", RetKey, TRUE))
    /\ m = EmptyMap
    /\ addOrder # <<>>

----------------------------------------------------------------------------
(* The bounds of the calibration records *)

\* C33: in every calibration record minLat is the latitude of the expanded
\* bottom-right corner, maxLat that of the expanded top-left corner, minLon the
\* longitude of the expanded top-left corner and maxLon that of the expanded
\* bottom-right corner, so that minLat <= maxLat, minLon <= maxLon and maxLon
\* differs from minLon, for every region that holds a tile at each level.
\* (A latitude is a projected row: smaller is further north.)
BoundsRecords ==
    RegionValid =>
    \A i \in 1 .. Len(xml.layers) :
        LET e == expandTileCorners(ZoomLevels[i])
            r == xml.layers[i]
        IN /\ r.minLat = e.br.wy
           /\ r.maxLat = e.tl.wy
           /\ r.minLon = e.tl.wx
           /\ r.maxLon = e.br.wx
           /\ r.minLat >= r.maxLat
           /\ r.minLon <= r.maxLon
           /\ r.maxLon # r.minLon

-----------------------------------------------------------------------------
(* The point overlay called on its own *)

\* PointServer.Get: a transparent image with a pixel set for every coordinate
\* that passes the two tests of the loop: [t, err]
PointServerGet(coords, z, x, y) ==
    [t |-> [base |-> "alpha",
            marks |-> {<<LatLonXY(coords[i], z).xy.XP, LatLonXY(coords[i], z).xy.YP>> :
                         i \in {j \in 1 .. Len(coords) :
                                  /\ LatLonXY(coords[j], z).err # "nil"
                                  /\ LatLonXY(coords[j], z).xy.X = x
                                  /\ LatLonXY(coords[j], z).xy.Y = y}}],
     err |-> "nil"]

\* The state after NewPointServer read the coordinates of its file
InitPoint ==
    /\ OtherIdle
    /\ cfg = [cache |-> "nil", local |-> FALSE, http |-> FALSE, points |-> FALSE]
    /\ maxTiles = 0
    /\ m = EmptyMap
    /\ disk = EmptyDisk
    /\ black = SolidBlack
    /\ calls = <<>>
    /\ addOrder = <<>>
    /\ hist = [k \in Keys |-> NoHist]
    /\ points \in SeqsUpTo(PointChoices, MaxPoints)
    /\ sparse = NoSparse
    /\ ts = "points"
    /\ ret = [NoRet EXCEPT !.op = "NewPointServer"]
    /\ TopLeft = [wx |-> 0, wy |-> 0]
    /\ BottomRight = [wx |-> 0, wy |-> 0]
    /\ ZoomLevels = <<>>
    /\ missing = "none"
    /\ pipeCap = 1
    /\ encPc = "idle"
    /\ result = "pending"
    /\ countRes = NoCount
    /\ dirCreated = FALSE
    /\ cmdStarted = FALSE
    /\ prodPc = "idle"
    /\ pos = NoPos
    /\ gets = 0
    /\ rows = 0
    /\ lastGet = NoRow
    /\ lastRow = NoRow
    /\ lastZi = 0
    /\ lastTile = NoTile
    /\ stream = <<>>
    /\ pipe = 0
    /\ consPc = "idle"
    /\ xml = NoXml

\* p.Get(z, x, y)
PointGet(z, x, y) ==
    /\ ts = "points"
    /\ ret' = [NoRet EXCEPT !.op = "PointGet", !.z = z, !.x = x, !.y = y,
                             !.err = PointServerGet(points, z, x, y).err,
                             !.tile = PointServerGet(points, z, x, y).t]
    /\ UNCHANGED <<sparse, sparseFrame>>

NextPoint ==
    \E z \in SparseZooms, x \in SparseXInputs, y \in SparseYInputs : PointGet(z, x, y)

SpecPoint == InitPoint /\ [][NextPoint]_vars

\* The pixel offsets, at zoom z, of the configured points whose tile address at
\* zoom z is <<x, y>>
PointsOfTile(z, x, y) ==
    {<<LatLonXY(points[i], z).xy.XP, LatLonXY(points[i], z).xy.YP>> :
        i \in {j \in 1 .. Len(points) :
                 /\ LatLonXY(points[j], z).err = "nil"
                 /\ LatLonXY(points[j], z).xy.X = x
                 /\ LatLonXY(points[j], z).xy.Y = y}}

\* C34: a Get(z, x, y) of the point overlay returns a tile in which a pixel is
\* set exactly when it is the pixel offset of a configured point whose tile
\* address at zoom z is (x, y); a point that has no address at z sets no pixel.
PointPixels ==
    ret.op = "PointGet" => ret.tile.marks = PointsOfTile(ret.z, ret.x, ret.y)

-----------------------------------------------------------------------------
(* More claims about the point overlay of the combined source *)

\* C35: with a point overlay configured, the tile a Combined Get returns carries
\* no pixel drawn for another coordinate: its overlay pixels are among those of
\* the points of the requested (normalized) coordinate, and when no layer resolves
\* the coordinate the rest of the tile is black.
OverlayStaysInTile ==
    (IsCombinedGet(ret) /\ cfg.points) =>
        /\ ret.tile.marks \subseteq PointMarks(ret.z, RetKey[2], RetKey[3])
        /\ ret.src = "black" => ret.tile.base = "black"

\* What CombinedServer.Get(z, x, y) returns from the current state: the tile and
\* the layer it came from
CombinedResult(z, x, y, httpOut, addOut) ==
    LET r == get(z, x, y, httpOut, addOut)
    IN [tile |-> IF cfg.points THEN Paint(r.t, z, x, y) ELSE r.t, src |-> r.src]

\* C36: what a Combined Get returns depends only on the normalized coordinate:
\* a Get(z, x, y) returns the tile, from the layer, that a Get of the normalized
\* coordinate would have returned in its place, with and without a point overlay.
NormalizedOnlyStep ==
    IsCombinedGet(ret') =>
        LET z == ret'.z
            kx == RetKeyNext[2]
            ky == RetKeyNext[3]
        IN \E httpOut \in HttpTried(z, kx, ky), addOut \in AddTried(z, kx, ky) :
              /\ ret'.tile = CombinedResult(z, kx, ky, httpOut, addOut).tile
              /\ ret'.src = CombinedResult(z, kx, ky, httpOut, addOut).src
NormalizedOnly == [][NormalizedOnlyStep]_vars

-----------------------------------------------------------------------------
(* The construction of the sparse point server *)

\* The pixel offset of the point p in its tile
PixelOf(p) == [x |-> LatLonXY(p, sparse.z).xy.XP, y |-> LatLonXY(p, sparse.z).xy.YP]

\* How often the pixel px is in the point list of the idx-th key, and how often
\* the input holds a point of that tile and pixel
Listed(idx, px) ==
    Cardinality({j \in 1 .. Len(sparse.points[idx]) : sparse.points[idx][j] = px})
Given(idx, px) ==
    Cardinality({i \in 1 .. Len(points) :
                   /\ TileOf(points[i]) = <<sparse.keys[idx].x, sparse.keys[idx].y>>
                   /\ PixelOf(points[i]) = px})

\* C39: NewSparsePointServer is all-or-nothing: a zoom outside [0,24] gives
\* ZoomRangeError and no enumerator, a point without a tile address at the zoom
\* gives an error and no enumerator, and otherwise the key list holds every tile
\* address of a point once and the point lists hold every input point exactly once.
AllOrNothing ==
    /\ ts = "none" =>
          /\ ret.op = "NewSparsePointServer"
          /\ sparse = NoSparse
          /\ ret.err # "nil"
          /\ ~ZoomOk(ret.z) => ret.err = "ZoomRangeError"
          /\ ZoomOk(ret.z) => \E i \in 1 .. Len(points) : LatLonXY(points[i], ret.z).err # "nil"
    /\ ts = "sparse" =>
          /\ ZoomOk(sparse.z)
          /\ \A i \in 1 .. Len(points) : LatLonXY(points[i], sparse.z).err = "nil"
          /\ \A a, b \in 1 .. Len(sparse.keys) : sparse.keys[a] = sparse.keys[b] => a = b
          /\ {<<sparse.keys[a].x, sparse.keys[a].y>> : a \in 1 .. Len(sparse.keys)}
                = {TileOf(points[i]) : i \in 1 .. Len(points)}
          /\ Len(sparse.points) = Len(sparse.keys)
          /\ \A idx \in 1 .. Len(sparse.keys) :
                \A px \in {PixelOf(points[i]) : i \in 1 .. Len(points)}
                             \cup {sparse.points[idx][j] : j \in 1 .. Len(sparse.points[idx])} :
                   Listed(idx, px) = Given(idx, px)
AllOrNothingWitness ==
    /\ ts = "sparse"
    /\ Len(points) = MaxPoints
    /\ Len(sparse.keys) = 2
    /\ \E idx \in 1 .. 2 : Len(sparse.points[idx]) = 2

-----------------------------------------------------------------------------
(* The viewer: cmd/map *)

MaxOrigin == 2       \* largest distance of a component of Origin from 0 that is followed

ZoomFlags == {-1, 0, 23, 24, 25}          \* values of the -zoom flag
MouseInputs == {[X |-> 0, Y |-> 0], [X |-> 2, Y |-> 1]}
SizeInputs == {[WidthPx |-> 300, HeightPx |-> 200]}
Buttons == {"left", "wheelup", "wheeldown", "none"}
Directions == {"press", "release", "none"}

InitViewer ==
    /\ TileIdle
    /\ OruxIdle
    /\ OtherIdle

viewerFrame == <<tileVars, oruxVars, args, res, uim, lock, procs, stored>>

InBounds(o) == o.X \in -MaxOrigin .. MaxOrigin /\ o.Y \in -MaxOrigin .. MaxOrigin

\* main up to driver.Main: the flags are parsed into Zoom, a zoom outside
\* [0,24] ends the program
Main(zoom) ==
    /\ viewer.pc = "start"
    /\ viewer' = [viewer EXCEPT !.Zoom = zoom,
                                !.pc = IF zoom < 0 \/ zoom > 24 THEN "fatal" ELSE "loop"]
    /\ UNCHANGED viewerFrame

\* The test of the wheel-up branch that admits more than the last zoom
CanZoomInPastLast(zoom) == zoom <= 24

\* The tests of the two wheel branches
CanZoomIn(zoom) == zoom < 24
CanZoomOut(zoom) == zoom > 0

\* if !paintPending { paintPending = true; [pool.reset();] w.Send(paint.Event{}) }
SendPaint(v, reset) ==
    IF v.paintPending THEN v
    ELSE [v EXCEPT !.paintPending = TRUE,
                   !.pool = IF reset THEN {} ELSE @,
                   !.sent = TRUE]

\* case mouse.Event: the viewer after the event
mouseEvent(button, direction, p) ==
    LET v0 == [viewer EXCEPT !.ev = button, !.sent = FALSE, !.gets = {}]
        v1 == IF button = "left" /\ direction # "none"
              THEN [v0 EXCEPT !.dragging = (direction = "press"), !.drag = p]
              ELSE v0
        o == v1.Origin
    IN IF button \in {"wheelup", "wheeldown"}
       THEN IF button = "wheelup" /\ CanZoomIn(v1.Zoom)
            THEN SendPaint([v1 EXCEPT !.Zoom = @ + 1,
                                      !.Origin = [X |-> 2 * o.X + p.X, Y |-> 2 * o.Y + p.Y]],
                           TRUE)
            ELSE IF button = "wheeldown" /\ CanZoomOut(v1.Zoom)
            THEN SendPaint([v1 EXCEPT !.Zoom = @ - 1,
                                      !.Origin = [X |-> GoDiv(o.X - p.X, 2),
                                                  Y |-> GoDiv(o.Y - p.Y, 2)]],
                           TRUE)
            ELSE v1
       ELSE IF ~v1.dragging THEN v1
       ELSE LET ox == o.X - (p.X - v1.drag.X)
                oy == o.Y - (p.Y - v1.drag.Y)
            IN SendPaint([v1 EXCEPT !.Origin = [X |-> IF ox < 0 THEN 0 ELSE ox,
                                                Y |-> IF oy < 0 THEN 0 ELSE oy],
                                    !.drag = p],
                         FALSE)

MouseEvent(button, direction, p) ==
    /\ viewer.pc = "loop"
    /\ InBounds(mouseEvent(button, direction, p).Origin)
    /\ viewer' = mouseEvent(button, direction, p)
    /\ UNCHANGED viewerFrame

\* The window positions the loops of paint.Event draw a tile at
TileOffsets(origin, limit) == {x \in -255 .. limit - 1 : (x + (origin % 256)) % 256 = 0}

\* The tile indices drawTile computes for them
TilePoints(v) ==
    {<<(x + v.Origin.X) \div 256, (y + v.Origin.Y) \div 256>> :
        x \in TileOffsets(v.Origin.X, v.sz.WidthPx),
        y \in TileOffsets(v.Origin.Y, v.sz.HeightPx)}

\* case paint.Event, sent by the loop or by the window system: every tile of the
\* window is taken from the pool, which calls tileServer.Get(Zoom, tp.X, tp.Y)
\* for the tiles it has no texture of; releaseUnused leaves the tiles just drawn
PaintEvent ==
    /\ viewer.pc = "loop"
    /\ viewer' = [viewer EXCEPT !.ev = "paint", !.sent = FALSE,
                                !.gets = {<<viewer.Zoom, tp[1], tp[2]>> :
                                            tp \in TilePoints(viewer) \ viewer.pool},
                                !.pool = TilePoints(viewer),
                                !.paintPending = FALSE]
    /\ UNCHANGED viewerFrame

\* case size.Event
SizeEvent(e) ==
    /\ viewer.pc = "loop"
    /\ viewer' = [viewer EXCEPT !.ev = "size", !.sent = FALSE, !.gets = {}, !.sz = e]
    /\ UNCHANGED viewerFrame

NextViewer ==
    \/ \E zoom \in ZoomFlags : Main(zoom)
    \/ \E button \in Buttons, direction \in Directions, p \in MouseInputs :
          MouseEvent(button, direction, p)
    \/ PaintEvent
    \/ \E e \in SizeInputs : SizeEvent(e)

SpecViewer == InitViewer /\ [][NextViewer]_vars

\* C40: in the event loop of the viewer Zoom stays in [0,24], whatever accepted
\* -zoom flag it started with and whatever wheel, drag, paint and resize events
\* it handled, and no tileServer.Get is called with a zoom outside [0,24]; a wheel
\* event at the boundary changes neither Zoom nor Origin and sends no paint event.
ZoomStaysInRange ==
    /\ viewer.pc = "loop" => ZoomOk(viewer.Zoom)
    /\ \A g \in viewer.gets : ZoomOk(g[1])
BoundaryWheelStep ==
    \A p \in MouseInputs :
        /\ (viewer.pc = "loop" /\ viewer.Zoom = 24 /\ viewer'.ev = "wheelup"
              /\ viewer' = mouseEvent("wheelup", "none", p)) =>
              /\ viewer'.Zoom = 24
              /\ viewer'.Origin = viewer.Origin
              /\ viewer'.paintPending = viewer.paintPending
              /\ ~viewer'.sent
        /\ (viewer.pc = "loop" /\ viewer.Zoom = 0 /\ viewer'.ev = "wheeldown"
              /\ viewer' = mouseEvent("wheeldown", "none", p)) =>
              /\ viewer'.Zoom = 0
              /\ viewer'.Origin = viewer.Origin
              /\ viewer'.paintPending = viewer.paintPending
              /\ ~viewer'.sent
ViewerZoom == ZoomStaysInRange /\ [][BoundaryWheelStep]_vars
ViewerZoomWitness ==
    /\ viewer.pc = "loop"
    /\ viewer.Zoom = 24
    /\ viewer.ev = "wheelup"
    /\ ~viewer.paintPending
    /\ viewer.pool # {}

====
